---- MODULE Spec2Model ----
(***************************************************************************)
(* Registration subsystem of gopadel_backend: the unavailability validator *)
(* of RegistrationService, the write serializer, the repository and the    *)
(* HTTP handlers of registrations/controllers/registration_controller.py.  *)
(***************************************************************************)
EXTENDS Integers, Sequences, FiniteSets, Bags, TLC

VARIABLES
    regs,       \* rows of table "registrations" (committed)
    slots,      \* rows of table "registration_unavailability_slots" (committed), a bag
    nextId,     \* AUTO_INCREMENT counter of table "registrations"
    last,       \* the request handled last and its response
    val_in,     \* argument given to _validate_and_normalize_unavailability
    val_out,    \* its result
    val_again,  \* result of running it on its own output
    rq,         \* per worker: the validated data of the POST it is handling
    pc,         \* per worker: [at, status, err], its position in post/create and its answer
    tx,         \* per worker: [regs, slots], the rows written by its open transaction
    raised,     \* the exception given to custom_exception_handler
    response,   \* the Response it returned
    query,      \* [count, page_size, page]: a list request given to DefaultPagination
    page,       \* the payload of get_paginated_response
    tournaments,            \* rows of table "tournaments" (their ids)
    tournament_categories,  \* rows of table "tournament_categories"
    nextTcId,   \* AUTO_INCREMENT counter of table "tournament_categories"
    users       \* rows of table "users", by id

elsewhere == <<raised, response, query, page, tournaments, tournament_categories, nextTcId, users>>
vars == <<regs, slots, nextId, last, val_in, val_out, val_again, rq, pc, tx, elsewhere>>

NoHandler == raised = <<>> /\ response = <<>>
NoPagination == query = <<>> /\ page = <<>>
NoTournaments == tournaments = {} /\ tournament_categories = {} /\ nextTcId = 1
NoUsers == users = <<>>
NoOthers == NoHandler /\ NoPagination /\ NoTournaments /\ NoUsers

(***************************************************************************)
(* Bounds of the model.                                                    *)
(***************************************************************************)
MaxLen == 3      \* longest slot list given to the validator
MaxTime == 3     \* times of day are 0..MaxTime
MaxId == 2       \* registrations ever inserted (AUTO_INCREMENT stops there)
MaxUnav == 2     \* longest slot list in an HTTP payload

(***************************************************************************)
(* Python values reaching int(): an int, the decimal string of an int, or  *)
(* something int() raises on (None, a missing key, a non numeric string).  *)
(***************************************************************************)
PyInt(n) == [t |-> "int", n |-> n]
PyStr(n) == [t |-> "str", n |-> n]
PyNone == [t |-> "none", n |-> 0]

IntRaises(v) == v.t \notin {"int", "str"}
int(v) == v.n

(***************************************************************************)
(* list.sort(key=lambda r: r[0]): stable, ascending by start_time.         *)
(***************************************************************************)
RECURSIVE InsertByStart(_, _)
InsertByStart(r, sorted) ==
    IF sorted = <<>> THEN <<r>>
    ELSE IF r[1] < Head(sorted)[1] THEN <<r>> \o sorted
    ELSE <<Head(sorted)>> \o InsertByStart(r, Tail(sorted))

RECURSIVE SortByStart(_)
SortByStart(ranges) ==
    IF ranges = <<>> THEN <<>>
    ELSE InsertByStart(ranges[Len(ranges)], SortByStart(SubSeq(ranges, 1, Len(ranges) - 1)))

(***************************************************************************)
(* RegistrationService._validate_and_normalize_unavailability              *)
(***************************************************************************)
\* first loop (a): per block checks, in the order of the code
RECURSIVE ScanBlocks(_, _, _)
ScanBlocks(unavailability, idx, seen_exact) ==
    IF idx > Len(unavailability) THEN "none"
    ELSE LET blk == unavailability[idx] IN
         IF IntRaises(blk.day_of_week) THEN "invalid_block"
         ELSE LET dow == int(blk.day_of_week)
                  start == blk.start_time
                  end == blk.end_time
                  key == <<dow, start, end>>
              IN IF dow < 0 \/ dow > 4 THEN "day_range"
                 ELSE IF ~(start < end) THEN "time_order"
                 ELSE IF key \in seen_exact THEN "duplicate"
                 ELSE ScanBlocks(unavailability, idx + 1, seen_exact \cup {key})

\* a normalisation to ISO weekdays (Monday = 1)
NormalizedBlock_iso(blk) ==
    [day_of_week |-> PyInt(int(blk.day_of_week) + 1),
     start_time |-> blk.start_time,
     end_time |-> blk.end_time]

\* normalized.append({"day_of_week": dow, "start_time": start, "end_time": end})
NormalizedBlock(blk) ==
    [day_of_week |-> PyInt(int(blk.day_of_week)),
     start_time |-> blk.start_time,
     end_time |-> blk.end_time]

\* by_dow[dow]: the (start, end) ranges of one day, in payload order
RECURSIVE RangesOf(_, _)
RangesOf(blocks, dow) ==
    IF blocks = <<>> THEN <<>>
    ELSE LET rest == RangesOf(Tail(blocks), dow) IN
         IF int(Head(blocks).day_of_week) = dow
         THEN <<(<<Head(blocks).start_time, Head(blocks).end_time>>)>> \o rest
         ELSE rest

\* second loop (b) without the sort: each range against the one before it in the payload
ServiceDayOverlaps_unsorted(ranges) ==
    \E i \in 2..Len(ranges) : ranges[i][1] < ranges[i - 1][2]

\* second loop (b) on one day: sort, then compare each range with the previous one
ServiceDayOverlaps(ranges) ==
    LET sorted == SortByStart(ranges) IN
    \E i \in 2..Len(sorted) : sorted[i][1] < sorted[i - 1][2]

ServiceOverlap(blocks) ==
    \E i \in 1..Len(blocks) :
        ServiceDayOverlaps(RangesOf(blocks, int(blocks[i].day_of_week)))

_validate_and_normalize_unavailability(unavailability) ==
    IF unavailability = <<>> THEN [exc |-> "none", out |-> <<>>]
    ELSE LET a == ScanBlocks(unavailability, 1, {}) IN
         IF a # "none" THEN [exc |-> a, out |-> <<>>]
         ELSE IF ServiceOverlap(unavailability) THEN [exc |-> "overlap", out |-> <<>>]
         ELSE [exc |-> "none",
               out |-> [i \in 1..Len(unavailability) |-> NormalizedBlock(unavailability[i])]]

(***************************************************************************)
(* Fixture: the tournament categories (with their configured price) and    *)
(* the players that exist; both are read-only collaborators.               *)
(***************************************************************************)
TournamentCategories == {1, 2}
Players == {1, 2, 3}
TcPrice(tc) == IF tc = 1 THEN 50 ELSE 60
Amounts == {50, 60}
\* TournamentCategory.tournament: both categories of the fixture are of tournament 1
TournamentOf(tc) == IF tc \in {1, 2} THEN 1 ELSE 0

(***************************************************************************)
(* Storage.  A database value is [regs, slots, nextId].                    *)
(*   registration row: [id, tournament_category, player, partner,          *)
(*                      paid_amount, is_active]                            *)
(*   slot row: [registration, day_of_week, start_time, end_time]; the      *)
(*   slots are a bag of rows, as the table may hold equal rows with        *)
(*   different ids unless a constraint forbids it                          *)
(* A statement or a block of statements yields [db, exc, msg]: exc is the  *)
(* class of the exception raised ("none" when none was), msg tells which.  *)
(***************************************************************************)
Ok(db) == [db |-> db, exc |-> "none", msg |-> "none"]
Raise(db, exc, msg) == [db |-> db, exc |-> exc, msg |-> msg]

\* Registration.Meta.constraints: the three UniqueConstraints, as "rows a and b collide"
uq_registration_tc_player(a, b) ==
    a.tournament_category = b.tournament_category /\ a.player = b.player

\* the model without its (tournament_category, partner) constraint
uq_registration_tc_partner_dropped(a, b) == FALSE

uq_registration_tc_partner(a, b) ==
    a.tournament_category = b.tournament_category /\ a.partner = b.partner

uq_registration_tc_player_partner(a, b) ==
    /\ a.tournament_category = b.tournament_category
    /\ a.player = b.player
    /\ a.partner = b.partner

\* Registration.Meta.constraints: the two CheckConstraints
ck_registration_player_ne_partner(a) == a.player # a.partner

ck_registration_paid_amount_gte_0(a) == a.paid_amount >= 0

\* rows a and b cannot both be in the table
UniqueCollision(a, b) ==
    \/ uq_registration_tc_player(a, b)
    \/ uq_registration_tc_partner(a, b)
    \/ uq_registration_tc_player_partner(a, b)

\* a row against the other rows of the table, under all constraints of the model
RegistrationConstraintsHold(row, others) ==
    /\ ck_registration_player_ne_partner(row)
    /\ ck_registration_paid_amount_gte_0(row)
    /\ \A o \in others : ~UniqueCollision(row, o)

\* RegistrationUnavailability.Meta.constraints
ck_reg_unav_start_lt_end(s) == s.start_time < s.end_time

\* (holds when no row of the table equals s)
uq_reg_unav_exact_block(s, others) == ~BagIn(s, others)

\* a statement the storage fails on raises DatabaseError instead of acting
NoFault == [stmt |-> "none", rows |-> 0]
Fails(fault, stmt) == fault.stmt = stmt

\* Registration(**data) with the pair put in canonical order (lower id as player)
Registration_canonical(id, data) ==
    [id |-> id,
     tournament_category |-> data.tournament_category,
     player |-> IF data.player > data.partner THEN data.partner ELSE data.player,
     partner |-> IF data.player > data.partner THEN data.player ELSE data.partner,
     paid_amount |-> data.paid_amount,
     is_active |-> IF "is_active" \in data.keys THEN data.is_active ELSE TRUE]

\* Registration(**data), with the id the storage gives it (0: not saved yet);
\* "is_active": True if is_active is None else bool(is_active)
Registration(id, data) ==
    [id |-> id,
     tournament_category |-> data.tournament_category,
     player |-> data.player,
     partner |-> data.partner,
     paid_amount |-> data.paid_amount,
     is_active |-> IF "is_active" \in data.keys THEN data.is_active ELSE TRUE]

\* Registration.objects.create(**data): INSERT, the counter advances either way
InsertRegistration(db, data, fault) ==
    LET row == Registration(db.nextId, data)
        used == [db EXCEPT !.nextId = @ + 1]
    IN IF Fails(fault, "insert_registration") THEN Raise(db, "DatabaseError", fault.stmt)
       ELSE IF ~RegistrationConstraintsHold(row, db.regs) THEN Raise(used, "IntegrityError", "registration_constraint")
       ELSE Ok([used EXCEPT !.regs = @ \cup {row}])

\* instance.save() of an existing row: UPDATE ... WHERE id = row.id
UpdateRegistration(db, row, fault) ==
    LET others == {o \in db.regs : o.id # row.id} IN
    IF Fails(fault, "update_registration") THEN Raise(db, "DatabaseError", fault.stmt)
    ELSE IF ~RegistrationConstraintsHold(row, others)
         THEN Raise(db, "IntegrityError", "registration_constraint")
    ELSE Ok([db EXCEPT !.regs = others \cup {row}])

\* the table without the slots of one registration
SlotsExcept(table, reg_id) ==
    [s \in {x \in BagToSet(table) : x.registration # reg_id} |-> table[s]]

\* update without the delete before its bulk_create
DeleteSlots_skipped(db, reg_id, fault) == Ok(db)

\* RegistrationUnavailability.objects.filter(registration=instance).delete()
DeleteSlots(db, reg_id, fault) ==
    IF Fails(fault, "delete_slots") THEN Raise(db, "DatabaseError", fault.stmt)
    ELSE Ok([db EXCEPT !.slots = SlotsExcept(@, reg_id)])

\* RegistrationUnavailability(registration=..., day_of_week=..., start_time=..., end_time=...)
RegistrationUnavailability(reg_id, day_of_week, start_time, end_time) ==
    [registration |-> reg_id,
     day_of_week |-> day_of_week,
     start_time |-> start_time,
     end_time |-> end_time]

\* RegistrationUnavailability.objects.bulk_create(instances, ignore_conflicts=False):
\* rows go in in order; a constraint or the storage stops it with the rows before kept
\* (until the enclosing transaction rolls back)
RECURSIVE bulk_create(_, _, _, _)
bulk_create(db, instances, done, fault) ==
    IF instances = <<>> THEN Ok(db)
    ELSE LET row == Head(instances) IN
         IF Fails(fault, "bulk_create") /\ fault.rows = done
         THEN Raise(db, "DatabaseError", fault.stmt)
         ELSE IF ~ck_reg_unav_start_lt_end(row) \/ ~uq_reg_unav_exact_block(row, db.slots)
              THEN Raise(db, "IntegrityError", "slot_constraint")
         ELSE bulk_create([db EXCEPT !.slots = @ (+) SetToBag({row})],
                          Tail(instances), done + 1, fault)

\* the block without @transaction.atomic: what was written before the exception stays
TransactionAtomic_autocommit(before, res) == res

\* @transaction.atomic: commit when the block returns, roll back when it raises
\* (the AUTO_INCREMENT counter is not rolled back)
TransactionAtomic(before, res) ==
    IF res.exc = "none" THEN res
    ELSE Raise([before EXCEPT !.nextId = res.db.nextId], res.exc, res.msg)

(***************************************************************************)
(* RegistrationRepository                                                  *)
(***************************************************************************)
\* the lookup without its id filter
get_by_id_unfiltered(db, reg_id) == db.regs

\* get_by_id: the set of rows found (empty for None)
get_by_id(db, reg_id) == {r \in db.regs : r.id = reg_id}

exists_player_in_tc(db, tc_id, player_id) ==
    \E r \in db.regs : r.tournament_category = tc_id /\ r.player = player_id

exists_partner_in_tc(db, tc_id, partner_id) ==
    \E r \in db.regs : r.tournament_category = tc_id /\ r.partner = partner_id

\* the query without its reversed-order branch
exists_pair_in_tc_same_order(db, tc_id, player_id, partner_id) ==
    \E r \in db.regs :
        /\ r.tournament_category = tc_id
        /\ r.player = player_id /\ r.partner = partner_id

exists_pair_in_tc(db, tc_id, player_id, partner_id) ==
    \E r \in db.regs :
        /\ r.tournament_category = tc_id
        /\ \/ (r.player = player_id /\ r.partner = partner_id)
           \/ (r.player = partner_id /\ r.partner = player_id)

\* add_unavailability (itself @transaction.atomic): int(s["day_of_week"]) on each
\* slot, then bulk_create
add_unavailability(db, reg_id, slot_list, fault) ==
    IF slot_list = <<>> THEN Ok(db)
    ELSE TransactionAtomic(db,
            bulk_create(db,
                        [i \in 1..Len(slot_list) |->
                            RegistrationUnavailability(reg_id,
                                                       int(slot_list[i].day_of_week),
                                                       slot_list[i].start_time,
                                                       slot_list[i].end_time)],
                        0, fault))

\* the delete under on_delete=DO_NOTHING
RegistrationRepository_delete_no_cascade(db, instance) ==
    [db EXCEPT !.regs = @ \ {instance}]

\* RegistrationRepository.delete: instance.delete(), the slots go with it
\* (on_delete=CASCADE)
RegistrationRepository_delete(db, instance) ==
    [db EXCEPT !.regs = @ \ {instance},
               !.slots = SlotsExcept(@, instance.id)]

\* full_clean that does not leave the row's own stored version out
full_clean_counts_self(db, row, adding) ==
    IF RegistrationConstraintsHold(row, db.regs) THEN "none" ELSE "ValidationError"

\* Model.full_clean(): the constraints of Meta, against the other rows of the table
full_clean(db, row, adding) ==
    LET others == IF adding THEN db.regs ELSE {o \in db.regs : o.id # row.id} IN
    IF RegistrationConstraintsHold(row, others) THEN "none" ELSE "ValidationError"

(***************************************************************************)
(* Request payloads.  A payload is a record with the set of keys it holds  *)
(* (keys) and a value for each write field; the value of a key that is     *)
(* not in keys is never read.                                              *)
(***************************************************************************)
RequiredKeys == {"tournament_category", "player", "partner", "paid_amount"}

Payload(keys, tc, player, partner, paid_amount, unavailability) ==
    [keys |-> keys,
     tournament_category |-> IF "tournament_category" \in keys THEN tc ELSE 0,
     player |-> IF "player" \in keys THEN player ELSE 0,
     partner |-> IF "partner" \in keys THEN partner ELSE 0,
     paid_amount |-> IF "paid_amount" \in keys THEN paid_amount ELSE 0,
     unavailability |-> IF "unavailability" \in keys THEN unavailability ELSE <<>>,
     is_active |-> TRUE]

\* the payload with one more key: is_active (BooleanField, required=False)
WithIsActive(payload, value) ==
    [payload EXCEPT !.keys = @ \cup {"is_active"}, !.is_active = value]

\* attrs.get(key, getattr(self.instance, key, None))
Attr(attrs, instance, key) == IF key \in attrs.keys THEN attrs[key] ELSE instance[key]

\* self.instance of a serializer built for a create
NoInstance == [id |-> 0, tournament_category |-> 0, player |-> 0, partner |-> 0,
               paid_amount |-> 0, is_active |-> TRUE]

(***************************************************************************)
(* RegistrationUnavailabilitySerializer (the nested serializer)            *)
(***************************************************************************)
validate_day_of_week(value) == ~(value < 0 \/ value > 4)

SlotSerializerValid(blk) ==
    /\ validate_day_of_week(blk.day_of_week)
    /\ blk.start_time < blk.end_time

\* the validated block: day_of_week is a Python int from here on
to_internal_value(blk) == [blk EXCEPT !.day_of_week = PyInt(@)]

(***************************************************************************)
(* RegistrationWriteSerializer                                             *)
(***************************************************************************)
\* validate, 3a: a block seen before in the payload
SerializerDuplicate(unav) ==
    \E i, j \in 1..Len(unav) : i < j /\ unav[i] = unav[j]

\* validate, 3b comparing with the previous start instead of the previous end
SerializerDayOverlaps_prev_start(ranges) ==
    LET sorted == SortByStart(ranges) IN
    \E i \in 2..Len(sorted) : sorted[i][1] < sorted[i - 1][1]

\* validate, 3b on one day: sort by start_time, compare each range with the previous one
SerializerDayOverlaps(ranges) ==
    LET sorted == SortByStart(ranges) IN
    \E i \in 2..Len(sorted) : sorted[i][1] < sorted[i - 1][2]

SerializerOverlap(unav) ==
    \E i \in 1..Len(unav) :
        SerializerDayOverlaps(RangesOf(unav, int(unav[i].day_of_week)))

\* validate without its check 1
same_person_unchecked(player, partner) == FALSE

\* validate, 1: player == partner
same_person(player, partner) == player = partner

\* validate without its check 2 (no price reconciliation)
price_differs_unchecked(paid_amount, tc) == FALSE

\* validate with check 2 refusing only an amount below the price
price_differs_below(paid_amount, tc) == paid_amount < TcPrice(tc)

\* validate, 2: paid_amount != tc.price
price_differs(paid_amount, tc) == paid_amount # TcPrice(tc)

\* validate(attrs): "none" or the error raised
validate(attrs, instance) ==
    LET tc == Attr(attrs, instance, "tournament_category")
        player == Attr(attrs, instance, "player")
        partner == Attr(attrs, instance, "partner")
        paid_amount == Attr(attrs, instance, "paid_amount")
    IN IF same_person(player, partner) THEN "invalid_pair"
       ELSE IF price_differs(paid_amount, tc) THEN "price_mismatch"
       ELSE IF "unavailability" \in attrs.keys /\ SerializerDuplicate(attrs.unavailability)
            THEN "slot_duplicate"
       ELSE IF "unavailability" \in attrs.keys /\ SerializerOverlap(attrs.unavailability)
            THEN "slot_overlap"
       ELSE "none"

\* is_valid(): the fields first (the nested serializer on each block), then validate();
\* [err, data]: data is validated_data
is_valid(payload, instance) ==
    LET unav == payload.unavailability
        data == [payload EXCEPT !.unavailability =
                     [i \in 1..Len(unav) |-> to_internal_value(unav[i])]]
    IN IF \E i \in 1..Len(unav) : ~SlotSerializerValid(unav[i])
       THEN [err |-> "field_error", data |-> data]
       ELSE [err |-> validate(data, instance), data |-> data]

\* update taking the popped default for a present key
unav_present_always(validated_data) == TRUE

\* update: unav_present = "unavailability" in validated_data
unav_present(validated_data) == "unavailability" \in validated_data.keys

\* update assigning every write field, as a full replacement would
setattr_fields_all(instance, validated_data) ==
    [f \in DOMAIN instance |-> IF f = "id" THEN instance[f] ELSE validated_data[f]]

\* update: for field, value in validated_data.items(): setattr(instance, field, value)
\* ("unavailability" was popped before)
setattr_fields(instance, validated_data) ==
    [f \in DOMAIN instance |->
        IF f \in validated_data.keys \ {"unavailability"}
        THEN validated_data[f] ELSE instance[f]]

\* update(instance, validated_data), under @transaction.atomic
update(db, instance, validated_data, fault) ==
    LET unav_data == validated_data.unavailability
        row == setattr_fields(instance, validated_data)
        saved == UpdateRegistration(db, row, fault)
        deleted == DeleteSlots(saved.db, instance.id, fault)
        instances == [i \in 1..Len(unav_data) |->
                         RegistrationUnavailability(instance.id,
                                                    unav_data[i].day_of_week.n,
                                                    unav_data[i].start_time,
                                                    unav_data[i].end_time)]
    IN TransactionAtomic(db,
          IF full_clean(db, row, FALSE) # "none"
          THEN Raise(db, "ValidationError", "model_invalid")
          ELSE IF saved.exc # "none" THEN saved
          ELSE IF ~unav_present(validated_data) THEN saved
          ELSE IF deleted.exc # "none" THEN deleted
          ELSE IF unav_data = <<>> THEN deleted
          ELSE bulk_create(deleted.db, instances, 0, fault))

(***************************************************************************)
(* RegistrationService                                                     *)
(***************************************************************************)
get(db, reg_id) == get_by_id(db, reg_id)

\* create(**validated_data), under @transaction.atomic
create_pair_first(db, data, fault) ==
    LET tc_id == data.tournament_category
        player_id == data.player
        partner_id == data.partner
        checked == _validate_and_normalize_unavailability(data.unavailability)
        inserted == InsertRegistration(db, data, fault)
    IN TransactionAtomic(db,
          IF exists_pair_in_tc(db, tc_id, player_id, partner_id)
          THEN Raise(db, "ValidationError", "duplicate_pair")
          ELSE IF exists_player_in_tc(db, tc_id, player_id)
          THEN Raise(db, "ValidationError", "duplicate_player")
          ELSE IF exists_partner_in_tc(db, tc_id, partner_id)
          THEN Raise(db, "ValidationError", "duplicate_partner")
          ELSE IF checked.exc # "none"
          THEN Raise(db, "ValidationError", checked.exc)
          ELSE IF full_clean(db, Registration(0, data), TRUE) # "none"
          THEN Raise(db, "ValidationError", "model_invalid")
          ELSE IF inserted.exc # "none" THEN inserted
          ELSE add_unavailability(inserted.db, db.nextId, checked.out, fault))

create(db, data, fault) ==
    LET tc_id == data.tournament_category
        player_id == data.player
        partner_id == data.partner
        checked == _validate_and_normalize_unavailability(data.unavailability)
        inserted == InsertRegistration(db, data, fault)
    IN TransactionAtomic(db,
          IF exists_player_in_tc(db, tc_id, player_id)
          THEN Raise(db, "ValidationError", "duplicate_player")
          ELSE IF exists_partner_in_tc(db, tc_id, partner_id)
          THEN Raise(db, "ValidationError", "duplicate_partner")
          ELSE IF exists_pair_in_tc(db, tc_id, player_id, partner_id)
          THEN Raise(db, "ValidationError", "duplicate_pair")
          ELSE IF checked.exc # "none"
          THEN Raise(db, "ValidationError", checked.exc)
          ELSE IF full_clean(db, Registration(0, data), TRUE) # "none"
          THEN Raise(db, "ValidationError", "model_invalid")
          ELSE IF inserted.exc # "none" THEN inserted
          ELSE add_unavailability(inserted.db, db.nextId, checked.out, fault))

(***************************************************************************)
(* RegistrationListCreateView / RegistrationDetailView: [db, status, err]; *)
(* err is the error answered, or for a 500 the statement that failed.      *)
(***************************************************************************)
Response(db, status, err) == [db |-> db, status |-> status, err |-> err]

\* what the except clauses of post and patch make of a raised exception
ExceptionResponse(db, res) ==
    IF res.exc = "ValidationError" THEN Response(db, 400, res.msg)
    ELSE IF res.exc = "IntegrityError" THEN Response(db, 400, "integrity_error")
    ELSE Response(db, 500, res.msg)

post(db, payload, fault) ==
    LET serializer == is_valid(payload, NoInstance)
        res == create(db, serializer.data, fault)
    IN IF serializer.err # "none" THEN Response(db, 400, serializer.err)
       ELSE IF res.exc = "none" THEN Response(res.db, 201, "none")
       ELSE ExceptionResponse(res.db, res)

patch(db, pk, payload, fault) ==
    LET found == get(db, pk)
        reg == CHOOSE r \in found : TRUE
        serializer == is_valid(payload, reg)
        res == update(db, reg, serializer.data, fault)
    IN IF found = {} THEN Response(db, 404, "not_found")
       ELSE IF serializer.err # "none" THEN Response(db, 400, serializer.err)
       ELSE IF res.exc = "none" THEN Response(res.db, 200, "none")
       ELSE ExceptionResponse(res.db, res)

\* RegistrationDetailView.get
RegistrationDetailView_get(db, pk) ==
    IF get(db, pk) = {} THEN Response(db, 404, "not_found")
    ELSE Response(db, 200, "none")

delete(db, pk) ==
    LET found == get(db, pk)
        reg == CHOOSE r \in found : TRUE
    IN IF found = {} THEN Response(db, 404, "not_found")
       ELSE Response(RegistrationRepository_delete(db, reg), 200, "none")

(***************************************************************************)
(* The requests as actions on the committed storage.                       *)
(***************************************************************************)
Db == [regs |-> regs, slots |-> slots, nextId |-> nextId]

Answered(op, r, payload) ==
    /\ regs' = r.db.regs
    /\ slots' = r.db.slots
    /\ nextId' = r.db.nextId
    /\ last' = [op |-> op, status |-> r.status, err |-> r.err,
                unav_key |-> "unavailability" \in payload.keys]
    /\ UNCHANGED <<val_in, val_out, val_again, rq, pc, tx, elsewhere>>

Post(payload, fault) ==
    /\ nextId <= MaxId
    /\ Answered("post", post(Db, payload, fault), payload)

Patch(pk, payload, fault) ==
    Answered("patch", patch(Db, pk, payload, fault), payload)

Delete(pk) ==
    Answered("delete", delete(Db, pk), Payload({}, 0, 0, 0, 0, <<>>))

Get(pk) ==
    Answered("get", RegistrationDetailView_get(Db, pk), Payload({}, 0, 0, 0, 0, <<>>))

(***************************************************************************)
(* Specification SpecVal: the validator applied to every bounded slot list *)
(* and then to its own output.                                             *)
(***************************************************************************)
ValDays == {PyInt(-1), PyInt(0), PyInt(4), PyInt(5), PyStr(4), PyNone}
ValBlocks == [day_of_week : ValDays, start_time : 0..MaxTime, end_time : 0..MaxTime]
ValLists == UNION {[1..n -> ValBlocks] : n \in 0..MaxLen}

NotRun == [exc |-> "not_run", out |-> <<>>]
Workers == {1, 2}
At(at) == [at |-> at, status |-> 0, err |-> "none"]
Done(status, err) == [at |-> "done", status |-> status, err |-> err]
NoWrites == [regs |-> {}, slots |-> EmptyBag]
NoWork ==
    /\ rq = [w \in Workers |-> Payload({}, 0, 0, 0, 0, <<>>)]
    /\ pc = [w \in Workers |-> At("idle")]
    /\ tx = [w \in Workers |-> NoWrites]
NoRequest == [op |-> "none", status |-> 0, err |-> "none", unav_key |-> FALSE]

InitVal ==
    /\ val_in \in ValLists
    /\ val_out = NotRun
    /\ val_again = NotRun
    /\ regs = {} /\ slots = EmptyBag /\ nextId = 1 /\ last = NoRequest
    /\ NoWork
    /\ NoOthers

Validate ==
    /\ val_out = NotRun
    /\ val_out' = _validate_and_normalize_unavailability(val_in)
    /\ UNCHANGED <<regs, slots, nextId, last, val_in, val_again, rq, pc, tx, elsewhere>>

Revalidate ==
    /\ val_out.exc = "none"
    /\ val_again = NotRun
    /\ val_again' = _validate_and_normalize_unavailability(val_out.out)
    /\ UNCHANGED <<regs, slots, nextId, last, val_in, val_out, rq, pc, tx, elsewhere>>

NextVal == Validate \/ Revalidate

SpecVal == InitVal /\ [][NextVal]_vars

(***************************************************************************)
(* Specification Spec: any sequence of POST, PATCH and DELETE requests     *)
(* over two categories and three players; slot lists are empty or one slot.*)
(***************************************************************************)
Ids == 1..MaxId

OneSlot == [day_of_week |-> 4, start_time |-> 0, end_time |-> 1]
WeekendSlot == [day_of_week |-> 5, start_time |-> 0, end_time |-> 1]
FewLists == {<<>>, <<OneSlot>>, <<WeekendSlot>>}

PostPayloads(lists) ==
    {Payload(RequiredKeys \cup k, tc, p, q, a, u) :
        k \in SUBSET {"unavailability"}, tc \in TournamentCategories,
        p \in Players, q \in Players, a \in Amounts, u \in lists}

PatchPayloads(fields, lists) ==
    {Payload(k, tc, p, q, a, u) :
        k \in SUBSET fields, tc \in TournamentCategories,
        p \in Players, q \in Players, a \in Amounts, u \in lists}

InitHttp ==
    /\ regs = {} /\ slots = EmptyBag /\ nextId = 1 /\ last = NoRequest
    /\ val_in = <<>> /\ val_out = NotRun /\ val_again = NotRun
    /\ NoWork
    /\ NoOthers

Init == InitHttp

SpecPosts == PostPayloads(FewLists)
SpecPatches == PatchPayloads(RequiredKeys \cup {"unavailability"}, FewLists)

Next ==
    \/ \E payload \in SpecPosts : Post(payload, NoFault)
    \/ \E pk \in Ids, payload \in SpecPatches : Patch(pk, payload, NoFault)
    \/ \E pk \in Ids : Delete(pk)
    \/ \E pk \in Ids : Get(pk)

Spec == Init /\ [][Next]_vars

(***************************************************************************)
(* Specification SpecSlots: the same requests for one pair of players,     *)
(* with every slot list of the bounded domain and a storage that may fail  *)
(* on any one statement of a request.                                      *)
(***************************************************************************)
MaxSlotTime == 2     \* slots start in 0..MaxSlotTime-1 and end in 1..MaxSlotTime

SlotBlocks == [day_of_week : {4, 5},
               start_time : 0..(MaxSlotTime - 1),
               end_time : 1..MaxSlotTime]
SlotLists == UNION {[1..n -> SlotBlocks] : n \in 0..MaxUnav}

BulkFaults == {[stmt |-> "bulk_create", rows |-> k] : k \in 0..(MaxUnav - 1)}
PostFaults == {NoFault, [stmt |-> "insert_registration", rows |-> 0]} \cup BulkFaults
PatchFaults == {NoFault, [stmt |-> "update_registration", rows |-> 0],
                [stmt |-> "delete_slots", rows |-> 0]} \cup BulkFaults

SlotsPosts ==
    {Payload(RequiredKeys \cup k, tc, 1, 2, a, u) :
        k \in SUBSET {"unavailability"}, tc \in TournamentCategories,
        a \in Amounts, u \in SlotLists}

SlotsPatches ==
    {Payload(k, tc, 0, 0, a, u) :
        k \in SUBSET {"tournament_category", "paid_amount", "unavailability"},
        tc \in TournamentCategories, a \in Amounts, u \in SlotLists}

NextSlots ==
    \/ \E payload \in SlotsPosts, fault \in PostFaults : Post(payload, fault)
    \/ \E pk \in Ids, payload \in SlotsPatches, fault \in PatchFaults :
          Patch(pk, payload, fault)
    \/ \E pk \in Ids : Delete(pk)

SpecSlots == InitHttp /\ [][NextSlots]_vars

(***************************************************************************)
(* Specification SpecRace: two workers each handle one POST; the steps of  *)
(* RegistrationService.create interleave.  Queries read the committed rows *)
(* (READ COMMITTED, what Django asks of MySQL); an INSERT that collides on *)
(* a unique index with a row another transaction has not committed yet     *)
(* waits for that transaction to end.                                      *)
(***************************************************************************)
RacePosts ==
    {Payload(RequiredKeys \cup {"unavailability"}, 1, p, q, TcPrice(1), u) :
        p \in Players, q \in Players, u \in {<<>>, <<OneSlot>>}}

\* the worker is done with the response r of the controller
Answer(r) == Done(r.status, r.err)

\* post: serializer.is_valid(), then service.create opens its transaction
Receive(w, payload) ==
    LET serializer == is_valid(payload, NoInstance) IN
    /\ pc[w].at = "idle"
    /\ rq' = [rq EXCEPT ![w] = serializer.data]
    /\ pc' = [pc EXCEPT ![w] = IF serializer.err # "none"
                               THEN Done(400, serializer.err)
                               ELSE At("exists")]
    /\ UNCHANGED <<regs, slots, nextId, last, val_in, val_out, val_again, tx, elsewhere>>

\* create: the three existence queries, then the slot validator
ExistsChecks(w) ==
    LET data == rq[w]
        tc_id == data.tournament_category
        checked == _validate_and_normalize_unavailability(data.unavailability)
    IN /\ pc[w].at = "exists"
       /\ pc' = [pc EXCEPT ![w] =
                    IF exists_player_in_tc(Db, tc_id, data.player)
                    THEN Done(400, "duplicate_player")
                    ELSE IF exists_partner_in_tc(Db, tc_id, data.partner)
                    THEN Done(400, "duplicate_partner")
                    ELSE IF exists_pair_in_tc(Db, tc_id, data.player, data.partner)
                    THEN Done(400, "duplicate_pair")
                    ELSE IF checked.exc # "none" THEN Done(400, checked.exc)
                    ELSE At("full_clean")]
       /\ UNCHANGED <<regs, slots, nextId, last, val_in, val_out, val_again, rq, tx, elsewhere>>

\* create: tmp.full_clean()
FullClean(w) ==
    /\ pc[w].at = "full_clean"
    /\ pc' = [pc EXCEPT ![w] =
                 IF full_clean(Db, Registration(0, rq[w]), TRUE) # "none"
                 THEN Done(400, "model_invalid")
                 ELSE At("insert")]
    /\ UNCHANGED <<regs, slots, nextId, last, val_in, val_out, val_again, rq, tx, elsewhere>>

\* create: self.repo.create(**data)
Insert(w) ==
    LET res == InsertRegistration(Db, rq[w], NoFault)
        row == Registration(nextId, rq[w])
    IN /\ pc[w].at = "insert"
       /\ \A v \in Workers \ {w} : \A o \in tx[v].regs : ~UniqueCollision(row, o)
       /\ nextId' = res.db.nextId
       /\ IF res.exc = "none"
          THEN /\ tx' = [tx EXCEPT ![w].regs = res.db.regs \ regs]
               /\ pc' = [pc EXCEPT ![w] = At("add_unavailability")]
          ELSE /\ tx' = [tx EXCEPT ![w] = NoWrites]
               /\ pc' = [pc EXCEPT ![w] = Answer(ExceptionResponse(Db, res))]
       /\ UNCHANGED <<regs, slots, last, val_in, val_out, val_again, rq, elsewhere>>

\* create: self.repo.add_unavailability(reg, slots)
AddUnavailability(w) ==
    LET reg == CHOOSE r \in tx[w].regs : TRUE
        checked == _validate_and_normalize_unavailability(rq[w].unavailability)
        res == add_unavailability(Db, reg.id, checked.out, NoFault)
    IN /\ pc[w].at = "add_unavailability"
       /\ IF res.exc = "none"
          THEN /\ tx' = [tx EXCEPT ![w].slots = res.db.slots (-) slots]
               /\ pc' = [pc EXCEPT ![w] = At("commit")]
          ELSE /\ tx' = [tx EXCEPT ![w] = NoWrites]
               /\ pc' = [pc EXCEPT ![w] = Answer(ExceptionResponse(Db, res))]
       /\ UNCHANGED <<regs, slots, nextId, last, val_in, val_out, val_again, rq, elsewhere>>

\* create returns: the transaction commits and post answers 201
Commit(w) ==
    /\ pc[w].at = "commit"
    /\ regs' = regs \cup tx[w].regs
    /\ slots' = slots (+) tx[w].slots
    /\ tx' = [tx EXCEPT ![w] = NoWrites]
    /\ pc' = [pc EXCEPT ![w] = Done(201, "none")]
    /\ UNCHANGED <<nextId, last, val_in, val_out, val_again, rq, elsewhere>>

NextRace ==
    \/ \E w \in Workers, payload \in RacePosts : Receive(w, payload)
    \/ \E w \in Workers : ExistsChecks(w)
    \/ \E w \in Workers : FullClean(w)
    \/ \E w \in Workers : Insert(w)
    \/ \E w \in Workers : AddUnavailability(w)
    \/ \E w \in Workers : Commit(w)

SpecRace == InitHttp /\ [][NextRace]_vars

(***************************************************************************)
(* Specification SpecFields: POST, PATCH and DELETE over two players, with *)
(* the optional field is_active and every subset of the write fields in a  *)
(* PATCH; no slots.                                                        *)
(***************************************************************************)
FieldsPlayers == {1, 2}

FieldsPosts ==
    LET required == {Payload(RequiredKeys, tc, p, q, TcPrice(tc), <<>>) :
                        tc \in TournamentCategories, p \in FieldsPlayers, q \in FieldsPlayers}
    IN required \cup {WithIsActive(payload, v) : payload \in required, v \in BOOLEAN}

FieldsPatches ==
    LET partial == {Payload(k, tc, p, q, a, <<>>) :
                       k \in SUBSET RequiredKeys, tc \in TournamentCategories,
                       p \in FieldsPlayers, q \in FieldsPlayers, a \in Amounts}
    IN partial \cup {WithIsActive(payload, v) : payload \in partial, v \in BOOLEAN}

NextFields ==
    \/ \E payload \in FieldsPosts : Post(payload, NoFault)
    \/ \E pk \in Ids, payload \in FieldsPatches : Patch(pk, payload, NoFault)
    \/ \E pk \in Ids : Delete(pk)

SpecFields == InitHttp /\ [][NextFields]_vars

(***************************************************************************)
(* Claims                                                                  *)
(***************************************************************************)
SamePair(a, b) == {a.player, a.partner} = {b.player, b.partner}

\* two time ranges intersect; one that starts when the other ends does not
Intersect(a, b) == a.start_time < b.end_time /\ b.start_time < a.end_time

\* C1: no two stored registrations of one tournament category are the same
\* unordered pair {player, partner}, in the same order or swapped, after any
\* sequence of POST, PATCH and DELETE requests.
C1_NoRepeatedPair ==
    \A a \in regs : \A b \in regs :
        (a.id # b.id /\ a.tournament_category = b.tournament_category) => ~SamePair(a, b)

\* C2: within one tournament category no player id is in the player role of two
\* registrations and no player id is in the partner role of two registrations.
C2_RoleUnique ==
    \A a \in regs : \A b \in regs :
        (a.id # b.id /\ a.tournament_category = b.tournament_category)
            => (a.player # b.player /\ a.partner # b.partner)

\* two registrations share a category and a PATCH was just refused by full_clean
C2_Witness ==
    /\ last.op = "patch" /\ last.err = "model_invalid"
    /\ \E a \in regs : \E b \in regs :
          a.id # b.id /\ a.tournament_category = b.tournament_category

\* C3: when two concurrent creates ask for the same tournament category and the
\* same unordered pair (same order or swapped), at most one registration of that
\* pair is persisted, however their steps interleave.
C3_AtMostOnePersisted ==
    (/\ pc[1].at # "idle" /\ pc[2].at # "idle"
     /\ rq[1].tournament_category = rq[2].tournament_category
     /\ SamePair(rq[1], rq[2]))
        => Cardinality({r \in regs : /\ r.tournament_category = rq[1].tournament_category
                                     /\ SamePair(r, rq[1])}) <= 1

\* the create of payload collides with a stored registration: same category and
\* the same player, the same partner, or the same pair in either order
Collides(payload) ==
    \E r \in regs :
        /\ r.tournament_category = payload.tournament_category
        /\ \/ r.player = payload.player
           \/ r.partner = payload.partner
           \/ SamePair(r, payload)

DuplicateErrors == {"duplicate_player", "duplicate_partner", "duplicate_pair"}

\* a slot record the nested serializer accepts
WorkdaySlot(blk) == blk.day_of_week \in 0..4 /\ blk.start_time < blk.end_time

\* the payload is one the write serializer has nothing against
WellFormed(payload) ==
    /\ payload.player # payload.partner
    /\ payload.paid_amount = TcPrice(payload.tournament_category)
    /\ \A i \in 1..Len(payload.unavailability) : WorkdaySlot(payload.unavailability[i])
    /\ \A i \in 1..Len(payload.unavailability) : \A j \in 1..Len(payload.unavailability) :
          i # j => /\ payload.unavailability[i] # payload.unavailability[j]
                   /\ (payload.unavailability[i].day_of_week = payload.unavailability[j].day_of_week
                          => ~Intersect(payload.unavailability[i], payload.unavailability[j]))

\* C4 as stated: a create that collides with a stored registration fails with a
\* duplicate error and leaves the registrations and the slots as they were.
C4_DuplicateRefused ==
    \A payload \in SpecPosts :
        Collides(payload) =>
            LET r == post(Db, payload, NoFault) IN
            /\ r.err \in DuplicateErrors
            /\ r.db.regs = regs /\ r.db.slots = slots

\* C4 amended: a create that collides with a stored registration fails with
\* status 400 and leaves the registrations and the slots as they were; its error
\* is a duplicate error when the payload is otherwise well formed (player and
\* partner differ, paid_amount is the category's price, the slot list is valid).
C4_DuplicateRefusedWhenWellFormed ==
    \A payload \in SpecPosts :
        Collides(payload) =>
            LET r == post(Db, payload, NoFault) IN
            /\ r.status = 400
            /\ r.db.regs = regs /\ r.db.slots = slots
            /\ WellFormed(payload) => r.err \in DuplicateErrors

\* a POST of a swapped pair was just refused as a duplicate pair
C4_Witness ==
    /\ last.op = "post" /\ last.status = 400 /\ last.err = "duplicate_pair"
    /\ regs # {}

RowsOf(reg_id, list) ==
    {RegistrationUnavailability(reg_id, list[i].day_of_week, list[i].start_time,
                                list[i].end_time) : i \in 1..Len(list)}

\* the stored slot rows of a registration, each stored once
StoredRows(table, reg_id, rows) ==
    /\ {s \in BagToSet(table) : s.registration = reg_id} = rows
    /\ \A s \in rows : CopiesIn(s, table) = 1

\* C6: create is atomic over the registration and its slots: whichever statement
\* the storage fails on, either the registration is stored with all the slots of
\* the payload or the registrations and the slots are as they were.
C6_CreateAtomic ==
    \A payload \in SlotsPosts : \A fault \in PostFaults :
        LET r == post(Db, payload, fault) IN
        IF r.status = 201
        THEN /\ \E reg \in r.db.regs : reg.id = nextId
             /\ StoredRows(r.db.slots, nextId, RowsOf(nextId, payload.unavailability))
             /\ SlotsExcept(r.db.slots, nextId) = slots
        ELSE r.db.regs = regs /\ r.db.slots = slots

\* a POST just failed while inserting its slots, after its registration row was
\* inserted, and no registration is stored
C6_Witness ==
    /\ last.op = "post" /\ last.status = 500 /\ last.err = "bulk_create"
    /\ nextId > 1 /\ regs = {}

\* what C7 asks of a slot list
C7_Expected(list) ==
    /\ \A i \in 1..Len(list) :
          /\ list[i].day_of_week.t \in {"int", "str"}
          /\ list[i].day_of_week.n \in 0..4
          /\ list[i].start_time < list[i].end_time
    /\ \A i \in 1..Len(list) : \A j \in 1..Len(list) :
          (i # j /\ list[i].day_of_week.n = list[j].day_of_week.n)
             => /\ ~(list[i].start_time = list[j].start_time /\ list[i].end_time = list[j].end_time)
                /\ ~Intersect(list[i], list[j])

\* C7: the validator accepts a non-empty slot list if and only if every record has
\* day_of_week in 0..4 and start_time < end_time, no two records have the same
\* (day_of_week, start_time, end_time) and no two records of one day intersect,
\* where a record starting when another ends does not intersect it.
C7_AcceptsIffValid ==
    (val_out # NotRun /\ val_in # <<>>) => ((val_out.exc = "none") <=> C7_Expected(val_in))

\* the validator accepted three records of one day given out of order, two of
\* them touching
C7_Witness ==
    /\ val_out.exc = "none" /\ Len(val_in) = 3
    /\ \A i \in 1..3 : val_in[i].day_of_week.n = val_in[1].day_of_week.n
    /\ val_in[1].start_time > val_in[2].start_time
    /\ \E i \in 1..3 : \E j \in 1..3 : val_in[i].end_time = val_in[j].start_time

\* C8: the stored slots of every registration have day_of_week in 0..4 and
\* start_time < end_time, no two of them are the same (day_of_week, start_time,
\* end_time) and no two of one day overlap.
C8_StoredSlotsValid ==
    \A s \in BagToSet(slots) :
        /\ WorkdaySlot(s)
        /\ CopiesIn(s, slots) = 1
        /\ \A t \in BagToSet(slots) :
              (t # s /\ t.registration = s.registration /\ t.day_of_week = s.day_of_week)
                 => ~Intersect(s, t)

\* a PATCH just replaced the slots of a registration by two slots of one day
C8_Witness ==
    /\ last.op = "patch" /\ last.status = 200 /\ last.unav_key
    /\ \E s \in BagToSet(slots) : \E t \in BagToSet(slots) :
          t # s /\ t.registration = s.registration /\ t.day_of_week = s.day_of_week

\* C9: the validator is idempotent: run on the output of a run that accepted, it
\* accepts and returns that output, record by record.
C9_Idempotent ==
    val_again # NotRun => (val_again.exc = "none" /\ val_again.out = val_out.out)

\* the validator ran on its own output, which differs from the first input: a day
\* given as a string came out as an int
C9_Witness ==
    /\ val_again # NotRun /\ val_out.out # <<>>
    /\ \E i \in 1..Len(val_in) : val_in[i].day_of_week.t = "str"

\* C10: a PATCH whose payload has no unavailability key leaves the slots of that
\* registration and of every other registration as they were, whatever it answers.
C10_SlotsUntouched ==
    \A pk \in Ids : \A payload \in SlotsPatches : \A fault \in PatchFaults :
        "unavailability" \notin payload.keys => patch(Db, pk, payload, fault).db.slots = slots

\* a PATCH without the key was just accepted while slots are stored
C10_Witness ==
    /\ last.op = "patch" /\ last.status = 200 /\ ~last.unav_key
    /\ slots # EmptyBag

\* the stored registration of an id (the model's tables hold at most one)
RowOf(table, pk) == CHOOSE r \in table : r.id = pk

\* C11: after a successful PATCH whose payload has the unavailability key, the
\* slots stored for that registration are exactly the submitted list, each once:
\* no slot stored before remains unless submitted again, and an empty list leaves
\* the registration without slots.
C11_SlotsReplaced ==
    \A pk \in Ids : \A payload \in SlotsPatches : \A fault \in PatchFaults :
        "unavailability" \in payload.keys =>
            LET r == patch(Db, pk, payload, fault) IN
            r.status = 200 => StoredRows(r.db.slots, pk, RowsOf(pk, payload.unavailability))

\* a PATCH with the key was just accepted, and a registration has two slots
C11_Witness ==
    /\ last.op = "patch" /\ last.status = 200 /\ last.unav_key
    /\ \E s \in BagToSet(slots) : \E t \in BagToSet(slots) :
          s # t /\ s.registration = t.registration /\ s.start_time < t.start_time

\* C12: every stored slot belongs to a stored registration, and a DELETE of a
\* registration removes all of its slots and no slot of another registration.
C12_NoOrphanSlots ==
    /\ \A s \in BagToSet(slots) : \E reg \in regs : reg.id = s.registration
    /\ \A pk \in Ids :
          (\E reg \in regs : reg.id = pk) =>
              LET r == delete(Db, pk) IN
              /\ \A reg \in r.db.regs : reg.id # pk
              /\ \A s \in BagToSet(r.db.slots) : s.registration # pk
              /\ \A s \in BagToSet(slots) :
                    s.registration # pk => CopiesIn(s, r.db.slots) = CopiesIn(s, slots)

\* a DELETE just removed a registration while another one keeps its slots
C12_Witness ==
    /\ last.op = "delete" /\ last.status = 200
    /\ slots # EmptyBag /\ nextId > MaxId

\* C13: update is atomic over field changes and slot replacement: a PATCH that
\* does not answer 200, whichever statement the storage fails on, leaves every
\* registration row and every slot as before.
C13_UpdateAtomic ==
    \A pk \in Ids : \A payload \in SlotsPatches : \A fault \in PatchFaults :
        LET r == patch(Db, pk, payload, fault) IN
        r.status # 200 => (r.db.regs = regs /\ r.db.slots = slots)

\* a PATCH just failed while inserting its slots, after its UPDATE and its DELETE
\* ran, and slots are stored
C13_Witness ==
    /\ last.op = "patch" /\ last.status = 500 /\ last.err = "bulk_create"
    /\ slots # EmptyBag

C14_NoSelfCollision ==
    \A reg \in regs : \A k \in (SUBSET {"player", "partner"}) \ {{}} :
        LET r == patch(Db, reg.id, Payload(k, 0, reg.player, reg.partner, 0, <<>>), NoFault)
        IN r.status = 200 /\ r.db.regs = regs

\* a PATCH was just accepted while two registrations share a category
C14_Witness ==
    /\ last.op = "patch" /\ last.status = 200
    /\ \E a \in regs : \E b \in regs :
          a.id # b.id /\ a.tournament_category = b.tournament_category

C19_NotFound ==
    \A pk \in Ids :
        (~ \E reg \in regs : reg.id = pk) =>
            /\ LET r == RegistrationDetailView_get(Db, pk)
               IN r.status = 404 /\ r.db = Db
            /\ LET r == delete(Db, pk)
               IN r.status = 404 /\ r.db = Db
            /\ \A payload \in SpecPatches :
                  LET r == patch(Db, pk, payload, NoFault)
                  IN r.status = 404 /\ r.db = Db

\* a DELETE was just answered 404 after every id was given out and every
\* registration deleted: it was repeated on a deleted id
C19_Witness ==
    /\ last.op = "delete" /\ last.status = 404
    /\ nextId > MaxId /\ regs = {}

\* C20 as stated: a create with player # partner that succeeds stores the lower
\* id as player and the higher id as partner.
C20_CanonicalOrder ==
    \A payload \in SpecPosts :
        LET r == post(Db, payload, NoFault) IN
        (payload.player # payload.partner /\ r.status = 201)
            => RowOf(r.db.regs, nextId).player < RowOf(r.db.regs, nextId).partner

\* C20 amended: a create with player # partner that succeeds stores player and
\* partner in the roles the request gave them; no canonical order is applied.
C20_OrderAsGiven ==
    \A payload \in SpecPosts :
        LET r == post(Db, payload, NoFault) IN
        (payload.player # payload.partner /\ r.status = 201)
            => /\ RowOf(r.db.regs, nextId).player = payload.player
               /\ RowOf(r.db.regs, nextId).partner = payload.partner

\* a POST just stored a registration whose player has the higher id
C20_Witness ==
    /\ last.op = "post" /\ last.status = 201
    /\ \E reg \in regs : reg.id = nextId - 1 /\ reg.player > reg.partner

WriteFields == {"tournament_category", "player", "partner", "paid_amount", "is_active"}

\* C15: a successful PATCH gives each field present in its payload the submitted
\* value and leaves each absent field (tournament category, player, partner,
\* paid_amount, is_active) with its previous value; no other registration and no
\* slot changes.
C15_OnlyPresentFields ==
    \A pk \in Ids : \A payload \in FieldsPatches :
        LET r == patch(Db, pk, payload, NoFault) IN
        r.status = 200 =>
            LET old == RowOf(regs, pk)
                new == RowOf(r.db.regs, pk)
            IN /\ \A f \in WriteFields :
                     new[f] = IF f \in payload.keys THEN payload[f] ELSE old[f]
               /\ r.db.regs \ {new} = regs \ {old}
               /\ r.db.slots = slots

\* a PATCH was just accepted and a stored registration is inactive
C15_Witness ==
    /\ last.op = "patch" /\ last.status = 200
    /\ \E reg \in regs : ~reg.is_active

\* updates of the pair of a registration
PairPatches ==
    {Payload(k, 0, p, q, 0, <<>>) :
        k \in (SUBSET {"player", "partner"}) \ {{}}, p \in Players, q \in Players}

\* the PATCH of registration pk would give it a valid pair whose player or
\* partner another registration of its category already has in that role
UpdateCollides(pk, payload) ==
    \E reg \in regs :
        /\ reg.id = pk
        /\ LET player == IF "player" \in payload.keys THEN payload.player ELSE reg.player
               partner == IF "partner" \in payload.keys THEN payload.partner ELSE reg.partner
           IN /\ player # partner
              /\ \E o \in regs :
                    /\ o.id # pk /\ o.tournament_category = reg.tournament_category
                    /\ (o.player = player \/ o.partner = partner)

\* C18: every create or update refused for a uniqueness conflict, found by the
\* pre-checks or raised by a storage constraint, is answered with status 409.
C18_ConflictAnswered409 ==
    /\ \A w \in Workers :
          (pc[w].at = "done" /\ WellFormed(rq[w]) /\ pc[w].status # 201)
              => pc[w].status = 409
    /\ \A payload \in RacePosts :
          (WellFormed(payload) /\ Collides(payload))
              => post(Db, payload, NoFault).status = 409
    /\ \A pk \in Ids : \A payload \in PairPatches :
          UpdateCollides(pk, payload) => patch(Db, pk, payload, NoFault).status = 409

(***************************************************************************)
(* utils/error_mapper.py and utils/exceptions.py: exceptions, the mapping  *)
(* of an exception to an HTTP status and the exception handler of DRF.     *)
(* A str is a sequence of characters; a Python value reaching the          *)
(* normalisers is None, a str, a list of str or a dict of such values.     *)
(***************************************************************************)
UpperCase == <<"A", "B", "C", "D", "E", "F", "G", "H", "I", "J", "K", "L", "M",
               "N", "O", "P", "Q", "R", "S", "T", "U", "V", "W", "X", "Y", "Z">>
LowerCase == <<"a", "b", "c", "d", "e", "f", "g", "h", "i", "j", "k", "l", "m",
               "n", "o", "p", "q", "r", "s", "t", "u", "v", "w", "x", "y", "z">>

lower_char(c) ==
    IF \E i \in DOMAIN UpperCase : UpperCase[i] = c
    THEN LowerCase[CHOOSE i \in DOMAIN UpperCase : UpperCase[i] = c]
    ELSE c

lower(str) == [i \in DOMAIN str |-> lower_char(str[i])]

\* Python's `k in msg` on two str
str_contains(msg, k) ==
    \E i \in 0..(Len(msg) - Len(k)) : \A j \in 1..Len(k) : msg[i + j] = k[j]

\* the text of the messages used below, character by character
Chars(str) ==
    CASE str = "UNIQUE constraint failed: users_customuser.email" ->
           <<"U", "N", "I", "Q", "U", "E", " ", "c", "o", "n", "s", "t", "r", "a", "i", "n", "t", " ", "f", "a", "i", "l", "e", "d", ":", " ", "u", "s", "e", "r", "s", "_", "c", "u", "s", "t", "o", "m", "u", "s", "e", "r", ".", "e", "m", "a", "i", "l">>
      [] str = "Duplicate entry 'a@b.c' for key 'email'" ->
           <<"D", "u", "p", "l", "i", "c", "a", "t", "e", " ", "e", "n", "t", "r", "y", " ", "'", "a", "@", "b", ".", "c", "'", " ", "f", "o", "r", " ", "k", "e", "y", " ", "'", "e", "m", "a", "i", "l", "'">>
      [] str = "Key (email) already exists." ->
           <<"K", "e", "y", " ", "(", "e", "m", "a", "i", "l", ")", " ", "a", "l", "r", "e", "a", "d", "y", " ", "e", "x", "i", "s", "t", "s", ".">>
      [] str = "FOREIGN KEY constraint failed" ->
           <<"F", "O", "R", "E", "I", "G", "N", " ", "K", "E", "Y", " ", "c", "o", "n", "s", "t", "r", "a", "i", "n", "t", " ", "f", "a", "i", "l", "e", "d">>
      [] str = "Column 'name' cannot be null" ->
           <<"C", "o", "l", "u", "m", "n", " ", "'", "n", "a", "m", "e", "'", " ", "c", "a", "n", "n", "o", "t", " ", "b", "e", " ", "n", "u", "l", "l">>
      [] str = "Boom!" ->
           <<"B", "o", "o", "m", "!">>
      [] str = "" ->
           <<>>

NoCode == "None"
ErrorCodes == {NoCode, "not_found", "conflict", "unique", "duplicate", "invalid"}

\* one error of a ValidationError: ValidationError(message, code=code), or a plain str
Leaf(code) == [message |-> "Ya existe.", code |-> code]

MsgStr == [kind |-> "str", items |-> <<>>, fields |-> <<>>]
MsgList(items) == [kind |-> "list", items |-> items, fields |-> <<>>]
MsgDict(fields) == [kind |-> "dict", items |-> <<>>, fields |-> fields]

NoDetail == [t |-> "none", items |-> <<>>, fields |-> <<>>]
StrDetail(str) == [t |-> "str", items |-> <<str>>, fields |-> <<>>]
ListDetail(items) == [t |-> "list", items |-> items, fields |-> <<>>]
DictDetail(fields) == [t |-> "dict", items |-> <<>>, fields |-> fields]

\* an exception object: its class, the attributes set on it and their values
Exc(cls, attrs, error_dict, error_list, code, msg, status_code, detail) ==
    [cls |-> cls, attrs |-> attrs, error_dict |-> error_dict, error_list |-> error_list,
     code |-> code, msg |-> msg, status_code |-> status_code, detail |-> detail]

\* django.core.exceptions.ValidationError(message, code): the code is kept
\* only by the single-message form; a dict or a list keeps the codes of its
\* own elements and nothing of the `code` argument
DjangoValidationError(message, code) ==
    Exc("DjangoValidationError",
        CASE message.kind = "dict" -> {"error_dict"}
          [] message.kind = "list" -> {"error_list"}
          [] OTHER -> {"message", "code", "error_list"},
        IF message.kind = "dict" THEN message.fields ELSE <<>>,
        CASE message.kind = "dict" -> <<>>
          [] message.kind = "list" -> message.items
          [] OTHER -> <<Leaf(code)>>,
        IF message.kind = "str" THEN code ELSE NoCode,
        "", 0, NoDetail)

IntegrityError(msg) == Exc("IntegrityError", {}, <<>>, <<>>, NoCode, msg, 0, NoDetail)
APIException(cls, status_code, detail) ==
    Exc(cls, {"detail", "status_code"}, <<>>, <<>>, NoCode, "", status_code, detail)
OtherException(cls, msg) == Exc(cls, {}, <<>>, <<>>, NoCode, msg, 0, NoDetail)

\* the classes an exception is an instance of
Bases(cls) ==
    {cls} \cup
    (IF cls \in {"DRFValidationError", "NotFound", "PermissionDenied", "AuthenticationFailed",
                 "NotAuthenticated", "Throttled", "ParseError", "MethodNotAllowed"}
     THEN {"APIException"} ELSE {}) \cup
    (IF cls \in {"IntegrityError", "OperationalError"} THEN {"DatabaseError"} ELSE {})

isinstance(exc, classes) == Bases(exc.cls) \cap classes # {}
hasattr(exc, attr) == attr \in exc.attrs

CodesOf(errors) == {errors[i].code : i \in DOMAIN errors} \ {NoCode}

_collect_codes(exc) ==
    IF hasattr(exc, "error_dict") /\ exc.error_dict # <<>>
    THEN UNION {CodesOf(exc.error_dict[i][2]) : i \in DOMAIN exc.error_dict}
    ELSE IF hasattr(exc, "error_list") /\ exc.error_list # <<>>
    THEN CodesOf(exc.error_list)
    ELSE IF hasattr(exc, "code") /\ exc.code # NoCode THEN {exc.code}
    ELSE {}

map_validation_error_status_conflict_first(exc) ==
    LET codes == _collect_codes(exc) IN
    IF {"conflict", "unique", "duplicate"} \cap codes # {} THEN 409
    ELSE IF "not_found" \in codes THEN 404
    ELSE 400

map_validation_error_status(exc) ==
    LET codes == _collect_codes(exc) IN
    IF "not_found" \in codes THEN 404
    ELSE IF {"conflict", "unique", "duplicate"} \cap codes # {} THEN 409
    ELSE 400

UniquenessWords ==
    {<<"u", "n", "i", "q", "u", "e">>,
     <<"d", "u", "p", "l", "i", "c", "a", "t", "e">>,
     <<"a", "l", "r", "e", "a", "d", "y", " ", "e", "x", "i", "s", "t", "s">>}

map_exception_status(exc) ==
    IF isinstance(exc, {"DjangoValidationError"}) THEN map_validation_error_status(exc)
    ELSE IF isinstance(exc, {"DRFValidationError"}) THEN 400
    ELSE IF isinstance(exc, {"IntegrityError"})
    THEN LET msg == lower(Chars(exc.msg)) IN
         IF \E k \in UniquenessWords : str_contains(msg, k) THEN 409 ELSE 400
    ELSE 400

\* _as_list on None, a str or a list of str: a list of str
_as_list(val) == val.items

MapFields(fields) == [i \in DOMAIN fields |-> <<fields[i][1], _as_list(fields[i][2])>>]

\* the normalised payload: a dict, written as the sequence of its items
normalize_errors(err) ==
    IF err.t = "dict" THEN MapFields(err.fields)
    ELSE IF err.t = "list" THEN << <<"non_field_errors", _as_list(err)>> >>
    ELSE IF err.t = "none" THEN << <<"detail", <<"Unknown error">> >> >>
    ELSE << <<"detail", <<err.items[1]>> >> >>

Messages(errors) == [i \in DOMAIN errors |-> errors[i].message]

normalize_exception_payload(exc) ==
    IF isinstance(exc, {"DjangoValidationError"})
    THEN IF hasattr(exc, "error_dict")
         THEN normalize_errors(DictDetail(
                  [i \in DOMAIN exc.error_dict |->
                      <<exc.error_dict[i][1], ListDetail(Messages(exc.error_dict[i][2]))>>]))
         ELSE normalize_errors(ListDetail(Messages(exc.error_list)))
    ELSE IF isinstance(exc, {"DRFValidationError"}) THEN normalize_errors(exc.detail)
    ELSE IF isinstance(exc, {"IntegrityError"})
    THEN << <<"non_field_errors", <<"Violacion de integridad de datos.">> >> >>
    ELSE << <<"detail", <<IF exc.msg = "" THEN "Unknown error" ELSE exc.msg>> >> >>

HttpResponse(data, status_code) == [status_code |-> status_code, data |-> data]
\* None, where a Response is expected
NoResponse == HttpResponse(<<>>, 0)

error_response(message, status_code) == HttpResponse(message, status_code)

\* rest_framework.views.exception_handler: Http404 and Django's
\* PermissionDenied become their DRF counterparts, an APIException is
\* answered with its own status_code and detail, anything else is None
drf_exception_handler(exc) ==
    IF exc.cls = "Http404"
    THEN HttpResponse(DictDetail(<< <<"detail", StrDetail("Not found.")>> >>), 404)
    ELSE IF exc.cls = "DjangoPermissionDenied"
    THEN HttpResponse(DictDetail(<< <<"detail",
             StrDetail("You do not have permission to perform this action.")>> >>), 403)
    ELSE IF isinstance(exc, {"APIException"})
    THEN HttpResponse(IF exc.detail.t \in {"list", "dict"} THEN exc.detail
                      ELSE DictDetail(<< <<"detail", exc.detail>> >>),
                      exc.status_code)
    ELSE HttpResponse(NoDetail, 0)

InternalError == << <<"detail", <<"Error interno del servidor.">> >> >>

custom_exception_handler_str_exc(exc) ==
    LET drf == drf_exception_handler(exc) IN
    IF drf.status_code # 0 THEN error_response(normalize_errors(drf.data), drf.status_code)
    ELSE IF isinstance(exc, {"DjangoValidationError", "DRFValidationError"})
    THEN error_response(normalize_exception_payload(exc), map_exception_status(exc))
    ELSE IF isinstance(exc, {"IntegrityError"})
    THEN error_response(normalize_exception_payload(exc), map_exception_status(exc))
    ELSE error_response(normalize_exception_payload(exc), 500)

custom_exception_handler(exc) ==
    LET drf == drf_exception_handler(exc) IN
    IF drf.status_code # 0 THEN error_response(normalize_errors(drf.data), drf.status_code)
    ELSE IF isinstance(exc, {"DjangoValidationError", "DRFValidationError"})
    THEN error_response(normalize_exception_payload(exc), map_exception_status(exc))
    ELSE IF isinstance(exc, {"IntegrityError"})
    THEN error_response(normalize_exception_payload(exc), map_exception_status(exc))
    ELSE IF isinstance(exc, {"NotFound"})
    THEN error_response(<< <<"detail", <<"No encontrado.">> >> >>, 404)
    ELSE IF isinstance(exc, {"AuthenticationFailed"})
    THEN error_response(<< <<"detail", <<"No autenticado.">> >> >>, 401)
    ELSE IF isinstance(exc, {"PermissionDenied"})
    THEN error_response(<< <<"detail", <<"No autorizado.">> >> >>, 403)
    ELSE IF isinstance(exc, {"Throttled"})
    THEN error_response(normalize_errors(exc.detail), 429)
    ELSE error_response(InternalError, 500)

(***************************************************************************)
(* Specification SpecHandler: a view raises one exception and DRF calls    *)
(* the handler registered in REST_FRAMEWORK.EXCEPTION_HANDLER with it.     *)
(***************************************************************************)
MaxErrors == 2   \* most errors in one error list of a ValidationError

LeafLists == UNION {[1..n -> {Leaf(c) : c \in ErrorCodes}] : n \in 0..MaxErrors}
FieldDicts ==
    {<<>>} \cup {<< <<"email", l>> >> : l \in LeafLists}
           \cup {<< <<"email", l>>, <<"detail", m>> >> : l, m \in LeafLists \ {<<>>}}

DjangoErrors ==
    {DjangoValidationError(MsgStr, c) : c \in ErrorCodes}
    \cup {DjangoValidationError(MsgList(l), c) : l \in LeafLists, c \in ErrorCodes}
    \cup {DjangoValidationError(MsgDict(f), c) : f \in FieldDicts, c \in ErrorCodes}

ExcMessages ==
    {"UNIQUE constraint failed: users_customuser.email",
     "Duplicate entry 'a@b.c' for key 'email'",
     "Key (email) already exists.",
     "FOREIGN KEY constraint failed",
     "Column 'name' cannot be null",
     "Boom!", ""}

IntegrityErrors == {IntegrityError(m) : m \in ExcMessages}

APIExceptions ==
    {APIException("DRFValidationError", 400,
                  DictDetail(<< <<"name", ListDetail(<<"Este campo es requerido.">>)>> >>)),
     APIException("DRFValidationError", 400, ListDetail(<<"Invalid.">>)),
     APIException("NotFound", 404, StrDetail("Not found.")),
     APIException("AuthenticationFailed", 401, StrDetail("Incorrect authentication credentials.")),
     APIException("NotAuthenticated", 401,
                  StrDetail("Authentication credentials were not provided.")),
     APIException("PermissionDenied", 403,
                  StrDetail("You do not have permission to perform this action.")),
     APIException("Throttled", 429, StrDetail("Request was throttled.")),
     APIException("ParseError", 400, StrDetail("Malformed request.")),
     APIException("MethodNotAllowed", 405, StrDetail("Method DELETE not allowed.")),
     APIException("MethodNotAllowed", 405, StrDetail("Method PUT not allowed."))}

OtherExceptions ==
    {OtherException(cls, m) :
        cls \in {"Exception", "ValueError", "KeyError", "OperationalError",
                 "Http404", "DjangoPermissionDenied"},
        m \in ExcMessages}

Exceptions == DjangoErrors \cup IntegrityErrors \cup APIExceptions \cup OtherExceptions

NoRegistrations ==
    /\ regs = {} /\ slots = EmptyBag /\ nextId = 1 /\ last = NoRequest
    /\ val_in = <<>> /\ val_out = NotRun /\ val_again = NotRun
    /\ NoWork

InitHandler ==
    /\ raised \in Exceptions
    /\ response = NoResponse
    /\ NoRegistrations /\ NoPagination /\ NoTournaments /\ NoUsers

Handle ==
    /\ response.status_code = 0
    /\ response' = custom_exception_handler(raised)
    /\ UNCHANGED <<regs, slots, nextId, last, val_in, val_out, val_again, rq, pc, tx,
                   raised, query, page, tournaments, tournament_categories, nextTcId, users>>

NextHandler == Handle

SpecHandler == InitHandler /\ [][NextHandler]_vars

(***************************************************************************)
(* Claims on the error mapper and the exception handler.                   *)
(***************************************************************************)
Handled == response.status_code # 0

\* every code carried by the errors of a ValidationError
CarriedCodes(exc) ==
    (UNION {CodesOf(exc.error_dict[i][2]) : i \in DOMAIN exc.error_dict})
    \cup CodesOf(exc.error_list)

MentionsUniqueness(msg) ==
    msg \in {"UNIQUE constraint failed: users_customuser.email",
             "Duplicate entry 'a@b.c' for key 'email'",
             "Key (email) already exists."}

\* C21: the status of a Django ValidationError is 404 if any of its codes is
\* not_found, else 409 if any is conflict, unique or duplicate, else 400
\* (not_found wins over a conflict code); the status of an IntegrityError is
\* 409 exactly when its message mentions unique, duplicate or already
\* exists, whatever the case of the letters, and 400 otherwise.
C21_MapperStatus ==
    /\ \A exc \in {raised} :
          /\ exc.cls = "DjangoValidationError" =>
                map_exception_status(exc) =
                    IF "not_found" \in CarriedCodes(exc) THEN 404
                    ELSE IF CarriedCodes(exc) \cap {"conflict", "unique", "duplicate"} # {}
                    THEN 409 ELSE 400
          /\ exc.cls = "IntegrityError" =>
                map_exception_status(exc) = IF MentionsUniqueness(exc.msg) THEN 409 ELSE 400
    /\ Handled /\ raised.cls \in {"DjangoValidationError", "IntegrityError"} =>
          response.status_code = map_exception_status(raised)

C21_Witness ==
    /\ Handled
    /\ raised.cls = "DjangoValidationError"
    /\ {"not_found", "unique"} \subseteq CarriedCodes(raised)
    /\ response.status_code = 404

ListedClasses ==
    {"DjangoValidationError", "DRFValidationError", "IntegrityError", "NotFound", "Http404",
     "AuthenticationFailed", "NotAuthenticated", "PermissionDenied", "DjangoPermissionDenied",
     "Throttled"}

\* C22 as stated: every exception that is not a validation, integrity,
\* not-found, authentication, permission or throttling error is answered
\* 500 with the fixed generic payload.
C22_GenericForUnlisted ==
    Handled /\ raised.cls \notin ListedClasses =>
        response = HttpResponse(InternalError, 500)

\* C22: every exception that is neither a Django ValidationError, nor an
\* IntegrityError, nor one that DRF's own handler answers (an APIException,
\* Http404, Django's PermissionDenied) is answered 500 with the fixed
\* generic payload: the responses to any two such exceptions are equal,
\* whatever their classes and messages.
C22_GenericForUnmapped ==
    LET Unmapped(exc) ==
            /\ ~isinstance(exc, {"DjangoValidationError", "IntegrityError", "APIException"})
            /\ exc.cls \notin {"Http404", "DjangoPermissionDenied"}
    IN  /\ Handled /\ Unmapped(raised) =>
            /\ response = HttpResponse(InternalError, 500)
            /\ \A other \in OtherExceptions :
                  Unmapped(other) => custom_exception_handler(other) = response
        /\ \A exc \in {raised} :
              Unmapped(exc) => custom_exception_handler(exc).status_code = 500

C22_Witness ==
    /\ Handled
    /\ raised = OtherException("Exception", "Boom!")
    /\ response.status_code = 500

(***************************************************************************)
(* utils/pagination.py: DefaultPagination, a PageNumberPagination over     *)
(* Django's Paginator (orphans = 0, allow_empty_first_page = True).  Query *)
(* parameters are strings or absent; a link is the number of the page it   *)
(* points to.                                                              *)
(***************************************************************************)
page_size == 20
max_page_size == 200

\* _positive_int(value, strict=True, cutoff=max_page_size) or, when the
\* parameter is absent or not a positive integer, the class's page_size
get_page_size_uncapped(request) ==
    IF ~IntRaises(request.page_size) /\ int(request.page_size) > 0
    THEN int(request.page_size)
    ELSE page_size

get_page_size(request) ==
    IF ~IntRaises(request.page_size) /\ int(request.page_size) > 0
    THEN IF int(request.page_size) < max_page_size THEN int(request.page_size) ELSE max_page_size
    ELSE page_size

\* Paginator.num_pages: ceil(max(1, count) / per_page)
num_pages(count, per_page) ==
    LET hits == IF count > 1 THEN count ELSE 1
    IN  (hits + per_page - 1) \div per_page

\* the collection being listed: range(count)
Items(count) == [i \in 1..count |-> i - 1]

NoPage == [status |-> 0, count |-> 0, page |-> 0, page_size |-> 0, total_pages |-> 0,
           next |-> PyNone, previous |-> PyNone, results |-> <<>>]
NotFoundPage == [NoPage EXCEPT !.status = 404]

\* paginate_queryset followed by get_paginated_response
paginate(request) ==
    LET per_page == get_page_size(request)
        total == num_pages(request.count, per_page)
        number == IF request.page.t = "none" THEN 1 ELSE int(request.page)
        bottom == (number - 1) * per_page
        top == IF bottom + per_page >= request.count THEN request.count ELSE bottom + per_page
    IN  IF request.page.t # "none" /\ IntRaises(request.page) THEN NotFoundPage
        ELSE IF number < 1 THEN NotFoundPage
        ELSE IF number > total /\ number # 1 THEN NotFoundPage
        ELSE [status |-> 200,
              count |-> request.count,
              page |-> number,
              page_size |-> per_page,
              total_pages |-> total,
              next |-> IF number < total THEN PyInt(number + 1) ELSE PyNone,
              previous |-> IF number > 1 THEN PyInt(number - 1) ELSE PyNone,
              results |-> SubSeq(Items(request.count), bottom + 1, top)]

(***************************************************************************)
(* Specification SpecPages: one list request on a collection of known      *)
(* size.                                                                   *)
(***************************************************************************)
MaxCount == 6    \* sizes 0..MaxCount, besides the sizes around max_page_size
MaxPage == 4     \* page numbers asked for are 0..MaxPage

PyJunk == [t |-> "junk", n |-> 0]
Counts == 0..MaxCount \cup {199, 200, 201, 250, 401}
PageSizeParams ==
    {PyNone, PyJunk} \cup {PyStr(n) : n \in (-1)..3 \cup {15, 199, 200, 201, 9999}}
PageParams == {PyNone, PyJunk} \cup {PyStr(n) : n \in 0..MaxPage}

Queries ==
    {[count |-> n, page_size |-> s, page |-> p] :
        n \in Counts, s \in PageSizeParams, p \in PageParams}

InitPages ==
    /\ query \in Queries
    /\ page = NoPage
    /\ NoRegistrations /\ NoHandler /\ NoTournaments /\ NoUsers

Paginate ==
    /\ page.status = 0
    /\ page' = paginate(query)
    /\ UNCHANGED <<regs, slots, nextId, last, val_in, val_out, val_again, rq, pc, tx,
                   raised, response, query, tournaments, tournament_categories, nextTcId,
                   users>>

NextPages == Paginate

SpecPages == InitPages /\ [][NextPages]_vars

(***************************************************************************)
(* Claims on pagination.                                                   *)
(***************************************************************************)
Ceil(n, d) == CHOOSE k \in 0..n : k * d >= n /\ (k - 1) * d < n
Smaller(a, b) == IF a < b THEN a ELSE b

\* the request asks for page size s >= 1 and was answered with a page
PageAnswered == page.status = 200 /\ query.page_size.t = "str" /\ query.page_size.n >= 1

\* what the claim says of a page besides total_pages
PageAsClaimed ==
    LET n == query.count
        s == query.page_size.n
        p == page.page
    IN  /\ page.page_size = Smaller(s, 200)
        /\ page.results =
              [i \in 1..(Smaller(p * page.page_size, n) - (p - 1) * page.page_size) |->
                  Items(n)[(p - 1) * page.page_size + i]]
        /\ (page.previous = PyNone) <=> (p = 1)
        /\ (page.next = PyNone) <=> (p = page.total_pages)

\* C23 as stated: total_pages = ceil(n / page_size) for every n.
C23_PageOfCeil ==
    PageAnswered =>
        /\ PageAsClaimed
        /\ page.total_pages = Ceil(query.count, page.page_size)

\* C23: for n items, a requested page size s >= 1 and a valid page p, the
\* response has page_size = min(s, 200), total_pages = ceil(n / page_size)
\* when n >= 1 and total_pages = 1 when n = 0 (the empty collection has one
\* empty page), results = the items numbered (p-1)*page_size up to
\* min(p*page_size, n), previous null iff p = 1, next null iff p = total_pages.
C23_PageOfCeilOrOne ==
    PageAnswered =>
        /\ PageAsClaimed
        /\ page.total_pages =
              IF query.count = 0 THEN 1 ELSE Ceil(query.count, page.page_size)

C23_Witness ==
    /\ PageAnswered
    /\ query.count = 250 /\ query.page_size.n = 9999
    /\ page.page = 2 /\ page.page_size = 200 /\ page.total_pages = 2
    /\ Len(page.results) = 50 /\ page.next = PyNone /\ page.previous # PyNone

(***************************************************************************)
(* Claims on the scope of the uniqueness rules and on the duplicate        *)
(* errors of create.                                                       *)
(***************************************************************************)
Persons(r) == {r.player, r.partner}

\* C24: no person is in two registrations (as player or as partner) of
\* categories of the same tournament; in particular nobody is the player of
\* one registration and the partner of another in one tournament category.
C24_OnePairingPerTournament ==
    \A a \in regs : \A b \in regs :
        (a.id # b.id
         /\ TournamentOf(a.tournament_category) = TournamentOf(b.tournament_category))
            => Persons(a) \cap Persons(b) = {}

\* a stored registration of the payload's category with the same player and the
\* same partner, in the same order
ExactPairStored(payload) ==
    \E r \in regs :
        /\ r.tournament_category = payload.tournament_category
        /\ r.player = payload.player /\ r.partner = payload.partner

\* the payload's player or partner is stored with a different counterpart
DifferentCounterpart(payload) ==
    \E r \in regs :
        /\ r.tournament_category = payload.tournament_category
        /\ \/ r.player = payload.player /\ r.partner # payload.partner
           \/ r.partner = payload.partner /\ r.player # payload.player

\* C25 as stated: a create of a pair already registered in the same order is
\* answered the duplicate-pair error; a duplicate-participant error is
\* answered only when the player or the partner is registered with a
\* different counterpart.
C25_ExactPairIsPairError ==
    \A payload \in SpecPosts :
        LET r == post(Db, payload, NoFault) IN
        /\ (WellFormed(payload) /\ ExactPairStored(payload)) => r.err = "duplicate_pair"
        /\ r.err \in {"duplicate_player", "duplicate_partner"} => DifferentCounterpart(payload)

\* C25: a well-formed create of a pair already registered in the same order
\* is answered the duplicate-participant error of the player check, which
\* runs first; the duplicate-pair error is answered only for a pair stored in
\* the reverse order whose player is in no player role and whose partner is
\* in no partner role of the category.
C25_ExactPairIsPlayerError ==
    \A payload \in SpecPosts :
        LET r == post(Db, payload, NoFault)
            tc == payload.tournament_category
        IN
        /\ (WellFormed(payload) /\ ExactPairStored(payload)) =>
              r.status = 400 /\ r.err = "duplicate_player"
        /\ r.err = "duplicate_pair" =>
              /\ \E g \in regs : /\ g.tournament_category = tc
                                 /\ g.player = payload.partner /\ g.partner = payload.player
              /\ ~\E g \in regs : /\ g.tournament_category = tc
                                  /\ (g.player = payload.player \/ g.partner = payload.partner)

\* a POST was just refused by the player check and the stored pair, posted
\* again in the same order, is refused that way
C25_Witness ==
    /\ last.op = "post" /\ last.status = 400 /\ last.err = "duplicate_player"
    /\ Cardinality(regs) = 1
    /\ \E payload \in SpecPosts :
          /\ WellFormed(payload) /\ ExactPairStored(payload)
          /\ post(Db, payload, NoFault).err = "duplicate_player"

(***************************************************************************)
(* Specification SpecPatchRace: two workers handle one PATCH each on the   *)
(* same registration; the statements of                                    *)
(* RegistrationWriteSerializer.update interleave.  The storage is InnoDB:  *)
(* the UPDATE of instance.save() locks the registration's row until the    *)
(* transaction ends, a DELETE waits for rows another transaction deleted,  *)
(* an INSERT waits for an equal row another transaction inserted, and      *)
(* DELETE and the unique check read the latest committed rows.             *)
(* tx[w] = [regs, slots, deleted]: the row updated, the slot rows inserted *)
(* and the committed slot rows deleted by the open transaction.            *)
(***************************************************************************)
OtherSlot == [day_of_week |-> 4, start_time |-> 1, end_time |-> 2]
LongSlot == [day_of_week |-> 4, start_time |-> 0, end_time |-> 2]

RaceLists == {<<>>, <<OneSlot>>, <<OtherSlot>>, <<LongSlot>>, <<OneSlot, OtherSlot>>,
              <<WeekendSlot>>}
RacePatches ==
    {Payload(k, 0, 0, 0, 0, u) : k \in SUBSET {"unavailability"}, u \in RaceLists}
OldLists == {<<>>, <<OneSlot>>}

RacePk == 1
StoredPair == Registration(RacePk, Payload(RequiredKeys, 1, 1, 2, TcPrice(1), <<>>))

NoPatchWrites == [regs |-> {}, slots |-> EmptyBag, deleted |-> EmptyBag]
NoPatch == [data |-> Payload({}, 0, 0, 0, 0, <<>>), instance |-> NoInstance]

InitPatchRace ==
    /\ regs = {StoredPair}
    /\ \E old \in OldLists : slots = SetToBag(RowsOf(RacePk, old))
    /\ nextId = RacePk + 1
    /\ last = NoRequest
    /\ val_in = <<>> /\ val_out = NotRun /\ val_again = NotRun
    /\ rq = [w \in Workers |-> NoPatch]
    /\ pc = [w \in Workers |-> At("idle")]
    /\ tx = [w \in Workers |-> NoPatchWrites]
    /\ NoOthers

\* the rows of the slots table a statement of worker w works on: the
\* committed ones, less those it deleted, plus those it inserted
Visible(w) ==
    [regs |-> regs, slots |-> (slots (-) tx[w].deleted) (+) tx[w].slots, nextId |-> nextId]

\* the committed slot rows of a registration
SlotsOf(table, reg_id) ==
    [s \in {x \in BagToSet(table) : x.registration = reg_id} |-> table[s]]

\* the registration's row carries no lock of the UPDATE of another transaction
RowLocked_never(w, reg_id) == FALSE

\* another open transaction has updated the registration's row
RowLocked(w, reg_id) ==
    \E v \in Workers \ {w} : \E r \in tx[v].regs : r.id = reg_id

Rollback(w, r) ==
    /\ tx' = [tx EXCEPT ![w] = NoPatchWrites]
    /\ pc' = [pc EXCEPT ![w] = Answer(ExceptionResponse(Db, r))]

\* patch: service.get(pk), then serializer.is_valid()
PatchReceive(w, payload) ==
    LET found == get(Db, RacePk)
        reg == CHOOSE r \in found : TRUE
        serializer == is_valid(payload, reg)
    IN /\ pc[w].at = "idle"
       /\ IF found = {}
          THEN /\ pc' = [pc EXCEPT ![w] = Done(404, "not_found")]
               /\ rq' = rq
          ELSE /\ rq' = [rq EXCEPT ![w] = [data |-> serializer.data, instance |-> reg]]
               /\ pc' = [pc EXCEPT ![w] = IF serializer.err # "none"
                                          THEN Done(400, serializer.err)
                                          ELSE At("full_clean")]
       /\ UNCHANGED <<regs, slots, nextId, last, val_in, val_out, val_again, tx, elsewhere>>

\* update: setattr on the instance, then instance.full_clean()
PatchFullClean(w) ==
    LET row == setattr_fields(rq[w].instance, rq[w].data) IN
    /\ pc[w].at = "full_clean"
    /\ pc' = [pc EXCEPT ![w] = IF full_clean(Db, row, FALSE) # "none"
                               THEN Done(400, "model_invalid")
                               ELSE At("save")]
    /\ UNCHANGED <<regs, slots, nextId, last, val_in, val_out, val_again, rq, tx, elsewhere>>

\* update: instance.save(), an UPDATE that waits for the row's lock
PatchSave(w) ==
    LET row == setattr_fields(rq[w].instance, rq[w].data)
        saved == UpdateRegistration(Db, row, NoFault)
    IN /\ pc[w].at = "save"
       /\ ~RowLocked(w, row.id)
       /\ IF saved.exc # "none" THEN Rollback(w, saved)
          ELSE /\ tx' = [tx EXCEPT ![w].regs = {row}]
               /\ pc' = [pc EXCEPT ![w] = IF unav_present(rq[w].data)
                                          THEN At("delete") ELSE At("commit")]
       /\ UNCHANGED <<regs, slots, nextId, last, val_in, val_out, val_again, rq, elsewhere>>

\* update: RegistrationUnavailability.objects.filter(registration=instance).delete()
PatchDelete(w) ==
    LET mine == SlotsOf(slots, rq[w].instance.id) IN
    /\ pc[w].at = "delete"
    /\ \A v \in Workers \ {w} : \A s \in BagToSet(mine) : ~BagIn(s, tx[v].deleted)
    /\ tx' = [tx EXCEPT ![w].deleted = mine]
    /\ pc' = [pc EXCEPT ![w] = IF rq[w].data.unavailability = <<>>
                               THEN At("commit") ELSE At("bulk_create")]
    /\ UNCHANGED <<regs, slots, nextId, last, val_in, val_out, val_again, rq, elsewhere>>

\* update: RegistrationUnavailability.objects.bulk_create(slots)
PatchBulkCreate(w) ==
    LET unav_data == rq[w].data.unavailability
        instances == [i \in 1..Len(unav_data) |->
                         RegistrationUnavailability(rq[w].instance.id,
                                                    unav_data[i].day_of_week.n,
                                                    unav_data[i].start_time,
                                                    unav_data[i].end_time)]
        res == bulk_create(Visible(w), instances, 0, NoFault)
    IN /\ pc[w].at = "bulk_create"
       /\ \A v \in Workers \ {w} : \A i \in 1..Len(instances) : ~BagIn(instances[i], tx[v].slots)
       /\ IF res.exc # "none" THEN Rollback(w, res)
          ELSE /\ tx' = [tx EXCEPT ![w].slots = SetToBag({instances[i] : i \in 1..Len(instances)})]
               /\ pc' = [pc EXCEPT ![w] = At("commit")]
       /\ UNCHANGED <<regs, slots, nextId, last, val_in, val_out, val_again, rq, elsewhere>>

\* update returns: the transaction commits and patch answers 200
PatchCommit(w) ==
    /\ pc[w].at = "commit"
    /\ regs' = {r \in regs : \A u \in tx[w].regs : u.id # r.id} \cup tx[w].regs
    /\ slots' = (slots (-) tx[w].deleted) (+) tx[w].slots
    /\ tx' = [tx EXCEPT ![w] = NoPatchWrites]
    /\ pc' = [pc EXCEPT ![w] = Done(200, "none")]
    /\ UNCHANGED <<nextId, last, val_in, val_out, val_again, rq, elsewhere>>

NextPatchRace ==
    \/ \E w \in Workers, payload \in RacePatches : PatchReceive(w, payload)
    \/ \E w \in Workers : PatchFullClean(w)
    \/ \E w \in Workers : PatchSave(w)
    \/ \E w \in Workers : PatchDelete(w)
    \/ \E w \in Workers : PatchBulkCreate(w)
    \/ \E w \in Workers : PatchCommit(w)

SpecPatchRace == InitPatchRace /\ [][NextPatchRace]_vars

(***************************************************************************)
(* Claim on concurrent replacements of the slots of one registration.      *)
(***************************************************************************)
\* the slot lists submitted by the PATCHes received so far
Submitted ==
    {rq[w].data.unavailability : w \in {v \in Workers : /\ pc[v].at # "idle"
                                                         /\ unav_present(rq[v].data)}}

\* a validated slot list, with day_of_week as the payload gave it
AsSubmitted(list) ==
    [i \in 1..Len(list) |-> [list[i] EXCEPT !.day_of_week = list[i].day_of_week.n]]

\* the committed slots of the registration are free of duplicates and overlaps
SlotsConsistent ==
    \A a \in BagToSet(slots) :
        /\ CopiesIn(a, slots) = 1
        /\ \A b \in BagToSet(slots) :
              (a # b /\ a.registration = b.registration /\ a.day_of_week = b.day_of_week)
                  => ~Intersect(a, b)

\* C26: when two PATCHes with `unavailability` for the same registration run
\* concurrently, every step leaves the committed slots of the registration
\* either as they were or equal to the slot set of one of the submitted
\* lists, never a mix of two, and the committed slots stay free of
\* duplicates and of overlaps within a day.
C26_NoMixedSlots ==
    [][/\ \/ SlotsOf(slots', RacePk) = SlotsOf(slots, RacePk)
          \/ \E list \in Submitted' :
                StoredRows(slots', RacePk, RowsOf(RacePk, AsSubmitted(list)))
       /\ SlotsConsistent']_vars

\* both PATCHes were answered 200 with different non-empty lists that share
\* a day, and the committed slots are those of one of them
C26_Witness ==
    /\ pc[1] = Done(200, "none") /\ pc[2] = Done(200, "none")
    /\ unav_present(rq[1].data) /\ unav_present(rq[2].data)
    /\ rq[1].data.unavailability # <<>> /\ rq[2].data.unavailability # <<>>
    /\ rq[1].data.unavailability # rq[2].data.unavailability
    /\ SlotsOf(slots, RacePk) # EmptyBag

(***************************************************************************)
(* tournaments: TournamentService and TournamentDetailView, with the       *)
(* inline edition of the categories of a tournament.  A row of             *)
(* "tournament_categories" is [id, tournament, name, price]; an item of    *)
(* the `categories` payload is [keys, id, name, price]; price stands for   *)
(* the fields an item assigns when present, and no item carries a          *)
(* `category`.  The table's collation is MySQL's default, which compares   *)
(* names without case.                                                     *)
(***************************************************************************)
CategoryNames == {"a", "b", "c", "A"}

\* str.lower() on a category name (names reach the service stripped)
name_lower(name) == IF name = "A" THEN "a" ELSE name

TDb == [tournaments |-> tournaments, tournament_categories |-> tournament_categories,
        nextTcId |-> nextTcId]

TournamentCategory(id, tournament, name, price) ==
    [id |-> id, tournament |-> tournament, name |-> name, price |-> price]

Item(keys, id, name, price) ==
    [keys |-> keys,
     id |-> IF "id" \in keys THEN id ELSE 0,
     name |-> IF "name" \in keys THEN name ELSE "",
     price |-> IF "price" \in keys THEN price ELSE 0]

\* models.UniqueConstraint(fields=["tournament", "name"]), as "rows a and b collide"
unique_name_per_tournament(a, b) ==
    a.tournament = b.tournament /\ name_lower(a.name) = name_lower(b.name)

\* TournamentCategory.full_clean(): clean() and the constraints, the row itself
\* left out of the uniqueness query when it is stored already
TournamentCategory_full_clean(db, row, adding) ==
    IF row.name = "" THEN "name_required"
    ELSE IF row.price < 0 THEN "price_negative"
    ELSE IF \E o \in db.tournament_categories :
                (adding \/ o.id # row.id) /\ unique_name_per_tournament(row, o)
    THEN "unique_together"
    ELSE "none"

\* a ValidationError of the service: {field: [message]}, with the `code` argument
ServiceError(field, message, code) ==
    DjangoValidationError(MsgDict(<< <<field, <<[message |-> message, code |-> NoCode]>> >> >>),
                          code)

NoExc == OtherException("none", "")
Returns(db) == [db |-> db, ok |-> TRUE, exc |-> NoExc]
Raises(db, exc) == [db |-> db, ok |-> FALSE, exc |-> exc]

\* TournamentRepository.get_tournament_by_id
get_tournament_by_id(db, tournament_id) == {t \in db.tournaments : t = tournament_id}

\* TournamentService.get
TournamentService_get(db, tournament_id) ==
    IF get_tournament_by_id(db, tournament_id) = {}
    THEN Raises(db, ServiceError("detail", "Tournament not found.", "not_found"))
    ELSE Returns(db)

\* TournamentService.delete: the tournament goes with its categories (CASCADE)
TournamentService_delete(db, tournament_id) ==
    IF get_tournament_by_id(db, tournament_id) = {}
    THEN Raises(db, ServiceError("detail", "Tournament not found.", "not_found"))
    ELSE Returns([db EXCEPT
            !.tournaments = @ \ {tournament_id},
            !.tournament_categories = {c \in @ : c.tournament # tournament_id}])

\* _normalize_update_item: [instance, name_lower ("" for None), seen, err]
_normalize_update_item(db, instance, item, existing_names_lower, payload_names_seen) ==
    LET has_name == "name" \in item.keys
        new_name == item.name
        lowered == name_lower(new_name)
        changed == [instance EXCEPT
                       !.name = IF has_name THEN new_name ELSE @,
                       !.price = IF "price" \in item.keys THEN item.price ELSE @]
        cleaned == TournamentCategory_full_clean(db, changed, FALSE)
        out(err) == [instance |-> changed,
                     name_lower |-> IF has_name THEN lowered ELSE "",
                     seen |-> IF has_name THEN payload_names_seen \cup {lowered}
                              ELSE payload_names_seen,
                     err |-> err]
    IN IF has_name /\ lowered \in payload_names_seen THEN out("duplicated_in_payload")
       ELSE IF /\ has_name
               /\ lowered # name_lower(instance.name)
               /\ lowered \in existing_names_lower
       THEN out("already_exists")
       ELSE out(cleaned)

\* _normalize_create_item: [instance, name_lower, err]
_normalize_create_item(db, tournament_id, item) ==
    LET inst == TournamentCategory(0, tournament_id, item.name,
                                   IF "price" \in item.keys THEN item.price ELSE 0)
    IN IF item.name = "" THEN [instance |-> inst, name_lower |-> "", err |-> "name_required"]
       ELSE [instance |-> inst, name_lower |-> name_lower(item.name),
             err |-> TournamentCategory_full_clean(db, inst, TRUE)]

\* the name an update item frees for the items after it: the name of
\* existing_by_id[cid], read after _normalize_update_item has assigned the new name
\* to that same object
old_lower(before, after) == name_lower(after.name)

\* step 4 of update for one item; st = [by_id, names, seen, to_update, to_create,
\* payload_ids, err]
PrepareItem(db, tournament_id, item, st) ==
    LET cid == IF "id" \in item.keys THEN item.id ELSE 0 IN
    IF cid # 0
    THEN IF cid \notin DOMAIN st.by_id THEN [st EXCEPT !.err = "not_of_this_tournament"]
         ELSE LET n == _normalize_update_item(db, st.by_id[cid], item, st.names, st.seen)
                  freed == old_lower(st.by_id[cid], n.instance)
              IN IF n.err # "none" THEN [st EXCEPT !.err = n.err]
                 ELSE [st EXCEPT
                          !.by_id = [@ EXCEPT ![cid] = n.instance],
                          !.seen = n.seen,
                          !.to_update = Append(@, cid),
                          !.payload_ids = @ \cup {cid},
                          !.names = IF n.name_lower # ""
                                    THEN (@ \ {freed}) \cup {n.name_lower} ELSE @]
    ELSE LET n == _normalize_create_item(db, tournament_id, item) IN
         IF n.err # "none" THEN [st EXCEPT !.err = n.err]
         ELSE IF n.name_lower \in st.seen THEN [st EXCEPT !.err = "duplicated_in_payload"]
         ELSE IF n.name_lower \in st.names THEN [st EXCEPT !.err = "already_exists"]
         ELSE [st EXCEPT
                  !.seen = @ \cup {n.name_lower},
                  !.to_create = Append(@, n.instance),
                  !.names = @ \cup {n.name_lower}]

RECURSIVE PrepareItems(_, _, _, _)
PrepareItems(db, tournament_id, items, st) ==
    IF items = <<>> \/ st.err # "none" THEN st
    ELSE PrepareItems(db, tournament_id, Tail(items),
                      PrepareItem(db, tournament_id, Head(items), st))

\* the table satisfies unique_name_per_tournament
NamesUnique(table) ==
    \A a \in table : \A b \in table : (a.id # b.id) => ~unique_name_per_tournament(a, b)

PersistCategories_keep_all(db, st, to_delete_ids) ==
    LET updated == {c \in db.tournament_categories : c.id \notin st.payload_ids}
                   \cup {st.by_id[id] : id \in st.payload_ids}
        created == {[st.to_create[i] EXCEPT !.id = db.nextTcId + i - 1] :
                        i \in 1..Len(st.to_create)}
    IN Returns([db EXCEPT
               !.tournament_categories = updated \cup created,
               !.nextTcId = @ + Len(st.to_create)])

\* step 6 of update: bulk_update, bulk_create (ids in list order), delete
PersistCategories(db, st, to_delete_ids) ==
    LET updated == {c \in db.tournament_categories : c.id \notin st.payload_ids}
                   \cup {st.by_id[id] : id \in st.payload_ids}
        created == {[st.to_create[i] EXCEPT !.id = db.nextTcId + i - 1] :
                        i \in 1..Len(st.to_create)}
    IN IF ~NamesUnique(updated) \/ ~NamesUnique(updated \cup created)
       THEN Raises(db, ServiceError("categories", "Tournament + name must be unique.", NoCode))
       ELSE Returns([db EXCEPT
               !.tournament_categories = {c \in updated \cup created : c.id \notin to_delete_ids},
               !.nextTcId = @ + Len(st.to_create)])

\* TournamentService.update, under @transaction.atomic; data = [keys, categories]
TournamentService_update(db, tournament_id, data) ==
    LET existing == {c \in db.tournament_categories : c.tournament = tournament_id}
        st0 == [by_id |-> [id \in {c.id : c \in existing} |->
                              CHOOSE c \in existing : c.id = id],
                names |-> {name_lower(c.name) : c \in existing},
                seen |-> {},
                to_update |-> <<>>,
                to_create |-> <<>>,
                payload_ids |-> {},
                err |-> "none"]
        st == PrepareItems(db, tournament_id, data.categories, st0)
        to_delete_ids == {c.id : c \in existing} \ st.payload_ids
    IN IF get_tournament_by_id(db, tournament_id) = {}
       THEN Raises(db, ServiceError("detail", "Tournament not found.", "not_found"))
       ELSE IF "categories" \notin data.keys THEN Returns(db)
       ELSE IF st.err # "none" THEN Raises(db, ServiceError("categories", st.err, NoCode))
       ELSE PersistCategories(db, st, to_delete_ids)

\* TournamentCategoryInlineUpdateSerializer: an item without id needs a name
InlineItemValid(item) ==
    ~(("id" \notin item.keys \/ item.id = 0) /\ ("name" \notin item.keys \/ item.name = ""))

UpdateTournamentSerializer_is_valid(data) ==
    \A i \in 1..Len(data.categories) : InlineItemValid(data.categories[i])

TResponse(db, status, err) == [db |-> db, status |-> status, err |-> err]

\* except DjangoVE as exc: the status of map_validation_error_status and the
\* first message of the payload
DjangoVEResponse(db, exc) ==
    TResponse(db, map_validation_error_status(exc), exc.error_dict[1][2][1].message)

TournamentDetailView_get(db, pk) ==
    LET res == TournamentService_get(db, pk) IN
    IF res.ok THEN TResponse(db, 200, "none") ELSE DjangoVEResponse(db, res.exc)

\* TournamentDetailView._update: a payload the serializer refuses raises DRF's
\* ValidationError, which only `except Exception` catches
TournamentDetailView__update(db, pk, data) ==
    LET current == TournamentService_get(db, pk)
        res == TournamentService_update(db, pk, data)
    IN IF ~current.ok THEN DjangoVEResponse(db, current.exc)
       ELSE IF ~UpdateTournamentSerializer_is_valid(data)
       THEN TResponse(db, 500, "Internal server error")
       ELSE IF res.ok THEN TResponse(res.db, 200, "none")
       ELSE DjangoVEResponse(db, res.exc)

TournamentDetailView_delete(db, pk) ==
    LET res == TournamentService_delete(db, pk) IN
    IF res.ok THEN TResponse(res.db, 204, "none") ELSE DjangoVEResponse(db, res.exc)

(***************************************************************************)
(* Specification SpecTournaments: GET, PUT/PATCH and DELETE on             *)
(* /api/v1/tournaments/<pk>/, from one stored tournament without           *)
(* categories.                                                             *)
(***************************************************************************)
MaxTcId == 2     \* tournament categories ever inserted
MaxItems == 2    \* longest `categories` list of a payload

TournamentIds == {1, 2}
ItemIds == 0..MaxTcId
Prices == {10}
InlineItems ==
    {Item(k, id, name, price) :
        k \in SUBSET {"id", "name", "price"}, id \in ItemIds,
        name \in CategoryNames, price \in Prices}
TournamentPatches ==
    {[keys |-> {}, categories |-> <<>>]}
    \cup {[keys |-> {"categories"}, categories |-> c] :
             c \in UNION {[1..n -> InlineItems] : n \in 0..MaxItems}}

InitTournaments ==
    /\ tournaments = {1}
    /\ tournament_categories = {}
    /\ nextTcId = 1
    /\ NoRegistrations /\ NoHandler /\ NoPagination /\ NoUsers

TAnswered(op, r) ==
    /\ tournaments' = r.db.tournaments
    /\ tournament_categories' = r.db.tournament_categories
    /\ nextTcId' = r.db.nextTcId
    /\ last' = [op |-> op, status |-> r.status, err |-> r.err, unav_key |-> FALSE]
    /\ UNCHANGED <<regs, slots, nextId, val_in, val_out, val_again, rq, pc, tx,
                   raised, response, query, page, users>>

TournamentGet(pk) == TAnswered("tournament_get", TournamentDetailView_get(TDb, pk))

TournamentUpdate(pk, data) ==
    LET r == TournamentDetailView__update(TDb, pk, data) IN
    /\ r.db.nextTcId <= MaxTcId + 1
    /\ TAnswered("tournament_update", r)

TournamentDelete(pk) == TAnswered("tournament_delete", TournamentDetailView_delete(TDb, pk))

NextTournaments ==
    \/ \E pk \in TournamentIds : TournamentGet(pk)
    \/ \E pk \in TournamentIds, data \in TournamentPatches : TournamentUpdate(pk, data)
    \/ \E pk \in TournamentIds : TournamentDelete(pk)

SpecTournaments == InitTournaments /\ [][NextTournaments]_vars

(***************************************************************************)
(* Claims on the inline edition of a tournament's categories.              *)
(***************************************************************************)
CategoriesOf(table, pk) == {c \in table : c.tournament = pk}

HasId(item) == "id" \in item.keys
HasTruthyId(item) == "id" \in item.keys /\ item.id # 0

\* the row after the items of the payload that name it, in payload order
RECURSIVE Applied(_, _)
Applied(row, items) ==
    IF items = <<>> THEN row
    ELSE LET item == Head(items)
             next == IF "id" \in item.keys /\ item.id = row.id
                     THEN [row EXCEPT
                              !.name = IF "name" \in item.keys THEN item.name ELSE @,
                              !.price = IF "price" \in item.keys THEN item.price ELSE @]
                     ELSE row
         IN Applied(next, Tail(items))

\* the categories of tournament pk after a successful update are as the payload
\* says, WithId telling which items count as carrying an id
AsPayload(before, after, pk, data, WithId(_)) ==
    LET items == data.categories
        existing == CategoriesOf(before.tournament_categories, pk)
        result == CategoriesOf(after.tournament_categories, pk)
        named == {items[i].id : i \in {j \in 1..Len(items) : WithId(items[j])}}
        fresh == {i \in 1..Len(items) : ~WithId(items[i])}
        kept == {Applied(c, items) : c \in {e \in existing : e.id \in named}}
        added == {c \in result : c.id \notin {e.id : e \in existing}}
    IN /\ {c \in result : c.id \in {e.id : e \in existing}} = kept
       /\ Cardinality(added) = Cardinality(fresh)
       /\ {<<c.name, c.price>> : c \in added}
              = {<<items[i].name, IF "price" \in items[i].keys THEN items[i].price ELSE 0>> :
                     i \in fresh}
       /\ CategoriesOf(after.tournament_categories, 3 - pk)
              = CategoriesOf(before.tournament_categories, 3 - pk)

UpdatedAsPayload(WithId(_)) ==
    \A pk \in TournamentIds : \A data \in TournamentPatches :
        LET r == TournamentDetailView__update(TDb, pk, data) IN
        r.status = 200 =>
            IF "categories" \in data.keys
            THEN AsPayload(TDb, r.db, pk, data, WithId)
            ELSE r.db.tournament_categories = tournament_categories

Renames(item, row, existing) ==
    /\ HasTruthyId(item) /\ item.id = row.id
    /\ "name" \in item.keys
    /\ \A e \in existing : name_lower(e.name) # name_lower(item.name)

\* item gives the name `name` to a new category or to the stored category `other`
TakesName(item, name, row, existing) ==
    /\ "name" \in item.keys /\ name_lower(item.name) = name_lower(name)
    /\ \/ ~HasTruthyId(item)
       \/ \E other \in existing : other.id # row.id /\ item.id = other.id

\* C28: within one update payload, once an item has renamed an existing category
\* from a name A to a name C, the name A is released: a later item of the same
\* payload that creates a category named A, or renames another category to A, is
\* accepted
C28_RenamedNameReleased ==
    \A pk \in tournaments : \A data \in TournamentPatches :
        LET existing == CategoriesOf(tournament_categories, pk)
            r == TournamentDetailView__update(TDb, pk, data)
        IN (/\ Len(data.categories) = 2
            /\ \E row \in existing :
                   /\ Renames(data.categories[1], row, existing)
                   /\ TakesName(data.categories[2], row.name, row, existing))
           => r.status = 200

\* C29: get, update and delete of a tournament id that does not exist answer 404
\* (the error carries the code not_found), not 400
C29_MissingTournamentIs404 ==
    \A pk \in TournamentIds \ tournaments :
        /\ TournamentDetailView_get(TDb, pk).status = 404
        /\ TournamentDetailView_delete(TDb, pk).status = 404
        /\ \A data \in TournamentPatches :
               TournamentDetailView__update(TDb, pk, data).status = 404

(***************************************************************************)
(* users: UserService.change_password behind UserChangePasswordView, and   *)
(* the soft delete.  A stored password is the hash of a raw password under *)
(* the salt drawn when it was set; hashes of different (salt, raw) pairs   *)
(* differ.                                                                 *)
(***************************************************************************)
MaxSalt == 2   \* salts a hash can be made with

Salts == 1..MaxSalt
Passwords == {"secret1", "secret2"}
NoOldPassword == ""    \* old_password absent (None)
UserIds == {1, 2, 3}

\* django.contrib.auth.hashers.make_password
make_password(raw, salt) == [salt |-> salt, raw |-> raw]

\* AbstractBaseUser.check_password: the raw password hashed with the stored salt
check_password(user, raw) == make_password(raw, user.password.salt) = user.password

\* AbstractBaseUser.set_password
set_password(user, raw, salt) == [user EXCEPT !.password = make_password(raw, salt)]

CustomUser(pk, raw, salt, is_staff, is_superuser) ==
    [pk |-> pk, password |-> make_password(raw, salt), is_staff |-> is_staff,
     is_superuser |-> is_superuser, is_active |-> TRUE, is_deleted |-> FALSE]

\* UserRepository.get_user_by_id: the users of that id that are not soft-deleted
get_user_by_id(table, user_id) ==
    {u \in {table[i] : i \in DOMAIN table} : u.pk = user_id /\ ~u.is_deleted}

UResult(table, ok, err) == [users |-> table, ok |-> ok, err |-> err]

\* UserService.delete with UserRepository.delete_user
UserService_delete(table, user_id) ==
    IF get_user_by_id(table, user_id) = {} THEN UResult(table, FALSE, "not_found")
    ELSE UResult([table EXCEPT ![user_id].is_deleted = TRUE, ![user_id].is_active = FALSE],
                 TRUE, "none")

change_password_any_new(table, actor, target_user_id, old_password, new_password, salt) ==
    LET found == get_user_by_id(table, target_user_id)
        user == CHOOSE u \in found : TRUE
        is_admin == actor.is_superuser \/ actor.is_staff
        is_self == actor.pk = user.pk
    IN IF found = {} THEN UResult(table, FALSE, "not_found")
       ELSE IF ~is_admin /\ ~is_self THEN UResult(table, FALSE, "not_allowed")
       ELSE IF ~is_admin /\ old_password = NoOldPassword
       THEN UResult(table, FALSE, "old_password_required")
       ELSE IF ~is_admin /\ ~check_password(user, old_password)
       THEN UResult(table, FALSE, "old_password_incorrect")
       ELSE UResult([table EXCEPT ![target_user_id] = set_password(user, new_password, salt)],
                    TRUE, "none")

\* UserService.change_password; salt is the salt set_password draws
change_password(table, actor, target_user_id, old_password, new_password, salt) ==
    LET found == get_user_by_id(table, target_user_id)
        user == CHOOSE u \in found : TRUE
        is_admin == actor.is_superuser \/ actor.is_staff
        is_self == actor.pk = user.pk
    IN IF found = {} THEN UResult(table, FALSE, "not_found")
       ELSE IF ~is_admin /\ ~is_self THEN UResult(table, FALSE, "not_allowed")
       ELSE IF ~is_admin /\ old_password = NoOldPassword
       THEN UResult(table, FALSE, "old_password_required")
       ELSE IF ~is_admin /\ ~check_password(user, old_password)
       THEN UResult(table, FALSE, "old_password_incorrect")
       ELSE IF old_password # NoOldPassword /\ old_password = new_password
       THEN UResult(table, FALSE, "new_password_same")
       ELSE UResult([table EXCEPT ![target_user_id] = set_password(user, new_password, salt)],
                    TRUE, "none")

\* ChangePasswordSerializer.validate, with actor and target_user as context
ChangePasswordSerializer_errors(actor, target_user, old_pwd, new_pwd) ==
    LET require_old == ~actor.is_staff /\ ~actor.is_superuser IN
    IF require_old /\ old_pwd = NoOldPassword THEN "old_password_required"
    ELSE IF old_pwd # NoOldPassword /\ ~check_password(target_user, old_pwd)
    THEN "old_password_incorrect"
    ELSE IF old_pwd # NoOldPassword /\ old_pwd = new_pwd THEN "new_password_same"
    ELSE "none"

\* UserChangePasswordView.post
UserChangePasswordView_post(table, actor, pk, old_password, new_password, salt) ==
    LET found == get_user_by_id(table, pk)
        target_user == CHOOSE u \in found : TRUE
        errors == ChangePasswordSerializer_errors(actor, target_user, old_password, new_password)
        res == change_password(table, actor, pk, old_password, new_password, salt)
    IN IF found = {} THEN [users |-> table, status |-> 404, err |-> "not_found"]
       ELSE IF errors # "none" THEN [users |-> table, status |-> 400, err |-> errors]
       ELSE IF res.ok THEN [users |-> res.users, status |-> 200, err |-> "none"]
       ELSE [users |-> table, status |-> 400, err |-> res.err]

\* UserDetailView.delete
UserDetailView_delete(table, pk) ==
    LET res == UserService_delete(table, pk) IN
    IF res.ok THEN [users |-> res.users, status |-> 200, err |-> "none"]
    ELSE [users |-> table, status |-> 404, err |-> "not_found"]

(***************************************************************************)
(* Specification SpecUsers: a staff user, an end user and a superuser; any *)
(* authenticated (active) user posts a change of password, any user is     *)
(* soft-deleted.                                                           *)
(***************************************************************************)
InitUsers ==
    /\ \E raw \in [UserIds -> Passwords] :
           users = [pk \in UserIds |-> CustomUser(pk, raw[pk], 1, pk = 1, pk = 3)]
    /\ NoRegistrations /\ NoHandler /\ NoPagination /\ NoTournaments

UAnswered(op, r) ==
    /\ users' = r.users
    /\ last' = [op |-> op, status |-> r.status, err |-> r.err, unav_key |-> FALSE]
    /\ UNCHANGED <<regs, slots, nextId, val_in, val_out, val_again, rq, pc, tx,
                   raised, response, query, page, tournaments, tournament_categories,
                   nextTcId>>

\* request.user is a user that can authenticate
Actors == {users[i] : i \in {j \in DOMAIN users : users[j].is_active}}

ChangePassword(actor, pk, old_password, new_password, salt) ==
    UAnswered("change_password",
              UserChangePasswordView_post(users, actor, pk, old_password, new_password, salt))

DeleteUser(pk) == UAnswered("user_delete", UserDetailView_delete(users, pk))

NextUsers ==
    \/ \E actor \in Actors, pk \in UserIds, old_password \in Passwords \cup {NoOldPassword},
          new_password \in Passwords, salt \in Salts :
           ChangePassword(actor, pk, old_password, new_password, salt)
    \/ \E pk \in UserIds : DeleteUser(pk)

SpecUsers == InitUsers /\ [][NextUsers]_vars

(***************************************************************************)
(* Claims on change_password.                                              *)
(***************************************************************************)
IsAdmin(actor) == actor.is_superuser \/ actor.is_staff

\* every call of change_password on the stored users satisfies P(actor, target id,
\* old_password, new_password, result)
EveryPasswordChange(P(_, _, _, _, _)) ==
    \A actor \in Actors, pk \in UserIds, old_password \in Passwords \cup {NoOldPassword},
       new_password \in Passwords, salt \in Salts :
        P(actor, pk, old_password, new_password,
          change_password(users, actor, pk, old_password, new_password, salt))

StoresAnotherPassword(actor, pk, old_password, new_password, r) ==
    /\ r.ok => ~check_password(users[pk], new_password)
    /\ (get_user_by_id(users, pk) # {} /\ check_password(users[pk], new_password))
           => ~r.ok /\ r.users = users

OldAndNewDiffer(actor, pk, old_password, new_password, r) ==
    /\ (r.ok /\ ~IsAdmin(actor))
           => ~check_password(users[pk], new_password) /\ check_password(r.users[pk], new_password)
    /\ (old_password # NoOldPassword /\ old_password = new_password)
           => ~r.ok /\ r.users = users

\* C30: for every actor, admin or not, a call of change_password that succeeds
\* stores a password that differs from the one the target user had before the call;
\* a call that would set the same password fails and leaves the stored password
\* unchanged
C30_StoredPasswordDiffers == EveryPasswordChange(StoresAnotherPassword)

\* C30 as amended: for an actor that is not an admin a successful call stores a
\* password that differs from the one the user had; for every actor a call whose
\* old_password is given and equals new_password fails and leaves the stored
\* password unchanged
C30_OldAndNewArgumentsDiffer == EveryPasswordChange(OldAndNewDiffer)

\* the end user has changed their own password, and can change it back
C30_Witness ==
    /\ last.op = "change_password" /\ last.status = 200
    /\ users[2].password = make_password("secret2", 2)
    /\ ~IsAdmin(users[2]) /\ users[2] \in Actors
    /\ change_password(users, users[2], 2, "secret2", "secret1", 1).ok
    /\ ~change_password(users, users[2] , 2, "secret2", "secret2", 1).ok

====
